---- MODULE Spec2Model ----
(***************************************************************************)
(* Model of the parsing, validation and normalisation core of the elpx     *)
(* viewer: the page-tree builder (renderer), and the helpers of the        *)
(* validator module.  Every function of the source is an operator that is  *)
(* computed the way the code computes it; every exported function is an    *)
(* action that applies it to an input drawn by the initial predicate of    *)
(* its specification.                                                      *)
(***************************************************************************)
EXTENDS Integers, Sequences, FiniteSets, TLC

VARIABLES
    \* ---- page-tree builder (renderer) ----
    xmlDoc,      \* the parsed manifest handed to generateElpViewData
    flatPages,   \* the flat records produced by parseModernPages
    pages,       \* the node objects of buildHierarchy, by address (position in flatPages)
    viewData,    \* what generateElpViewData returned
    treePc,      \* "idle" | "ready" | "done"
    \* ---- legacy metadata (validator) ----
    legacyDoc,           \* the parsed legacy manifest handed to extractLegacyMetadata
    legacyMetadata,      \* what extractLegacyMetadata returned
    normalizedMetadata,  \* what normalizeLegacyMetadata returned
    legacyPc,            \* "idle" | "ready" | "extracted" | "normalized"
    \* ---- structural validator ----
    validatedDoc,        \* the parsed modern manifest handed to the checks
    pagePresence,        \* what checkPagePresence returned
    structuralIntegrity, \* what validateStructuralIntegrity returned
    \* ---- XML loader ----
    xmlString,           \* the payload handed to parseContentXml
    parseResult,         \* what parseContentXml returned
    loaderPc,            \* "idle" | "ready" | "done"
    \* ---- modern metadata ----
    metadataDoc,         \* the parsed modern manifest handed to extractMetadata
    modernMetadata,      \* what extractMetadata returned
    metadataPc,          \* "idle" | "ready" | "done"
    \* ---- resource references ----
    resourceDoc,         \* the parsed modern manifest handed to extractResourcePaths
    zipFiles,            \* the names of the files of the archive
    resourcePaths,       \* what extractResourcePaths returned, or that it threw
    missingResources,    \* what findMissingResources returned, or that it threw
    resourcePc,          \* "idle" | "ready" | "extracted" | "done"
    \* ---- viewer: manifest of an opened file ----
    viewerFile,          \* the file handed to handleElpxFile / handleElpFile
    infoPanel,           \* what the handler passed to infoPanel.update
    \* ---- parseModernPages on raw fields ----
    navigationNodes,     \* the odeNavStructure elements of the document, with raw field texts
    parsedPages,         \* what parseModernPages returned for them
    pagesPc,             \* "idle" | "ready" | "done"
    \* ---- generateElpViewData on documents of any dialect ----
    anyDoc,              \* the document handed to it: null, rootless, modern or legacy
    anyViewData,         \* what generateElpViewData returned, or that it threw
    dialectPc,           \* "idle" | "ready" | "done"
    \* ---- publish modal ----
    modal,               \* the fields of state and ui the form handlers use, and the requests in flight
    github,              \* for each repository and branch: "absent", "empty" or "populated"
    submission,          \* what handleSubmit captured when Publish was pressed, while it runs
    published,           \* the last call of publishToGitHub
    selections,          \* the repository and branch selections made so far
    \* ---- parsePreviewRequest (service worker) ----
    requestUrl,          \* the URL handed to parsePreviewRequest: its pathname and origin
    requestBasePath,     \* the basePath option
    parsedRequest,       \* what parsePreviewRequest returned
    requestPc,           \* "idle" | "ready" | "done"
    \* ---- preview sessions (viewer and service worker) ----
    archives,            \* viewer: the files of the archive of every session it registered
    pendingSession,      \* viewer: the session whose registration handleElpxFile awaits
    currentSession,      \* viewer: currentSession.sessionId, or none
    released,            \* viewer: the sessions it sent invalidate-session for
    swMessages,          \* the messages posted to the service worker and not yet handled
    replies,             \* the sessions the service worker answered register-session:ready for
    sessions,            \* service worker: the sessions Map
    touched,             \* when each session was last registered or requested
    now,                 \* Date.now(), in milliseconds
    response,            \* the last request for a preview URL and its answer
    opened,              \* the number of archives opened so far
    \* ---- diagnostic messages (viewer) ----
    gatherArgs, \* the manifest kind, parsed document and archive handed to gatherMessages
    messages,   \* what gatherMessages returned, or that it threw
    gatherPc,   \* "idle" | "ready" | "done"
    \* ---- repeated calls of extractResourcePaths (validator) ----
    lastIndex,   \* RESOURCE_ATTRIBUTE_REGEX.lastIndex, which the module keeps between calls
    callDoc,     \* the document of the latest call
    callResult,  \* what the latest call returned, or that it threw
    callCount,   \* the number of calls so far
    \* ---- a publish run and its cancellation (publish modal) ----
    runInput,       \* the target branch, whether it exists and has files, and the number of files to publish
    run,            \* the position of handleSubmit and the fields of state it uses
    inFlight,       \* the request whose answer handleSubmit awaits, if any
    sentRequests,   \* the requests sent to GitHub so far, in order
    userCancelled,  \* cancelPublishing has run during this publish run
    \* ---- overlapping file loads (viewer) ----
    loads  \* for every file the user chooses, where its handleFile stands and the session it created

treeVars == <<xmlDoc, flatPages, pages, viewData, treePc>>
legacyVars == <<legacyDoc, legacyMetadata, normalizedMetadata, legacyPc>>
validatorVars == <<validatedDoc, pagePresence, structuralIntegrity>>
loaderVars == <<xmlString, parseResult, loaderPc>>
metadataVars == <<metadataDoc, modernMetadata, metadataPc>>
resourceVars == <<resourceDoc, zipFiles, resourcePaths, missingResources, resourcePc>>
viewerVars == <<viewerFile, infoPanel>>
pagesVars == <<navigationNodes, parsedPages, pagesPc>>
dialectVars == <<anyDoc, anyViewData, dialectPc>>
publishVars == <<modal, github, submission, published, selections>>
requestVars == <<requestUrl, requestBasePath, parsedRequest, requestPc>>
previewVars == <<archives, pendingSession, currentSession, released, swMessages, replies, sessions, touched, now, response, opened>>
diagnosticsVars == <<gatherArgs, messages, gatherPc>>
callsVars == <<lastIndex, callDoc, callResult, callCount>>
runVars == <<runInput, run, inFlight, sentRequests, userCancelled>>
loadsVars == <<loads>>
vars == <<treeVars, legacyVars, validatorVars, loaderVars, metadataVars, resourceVars, viewerVars, pagesVars, dialectVars, publishVars, requestVars, previewVars, diagnosticsVars, callsVars, runVars, loadsVars>>
\* what the actions of one component leave alone
notTreeVars == <<legacyVars, validatorVars, loaderVars, metadataVars, resourceVars, viewerVars, pagesVars, dialectVars, publishVars, requestVars, previewVars, diagnosticsVars, callsVars, runVars, loadsVars>>
notLegacyVars == <<treeVars, validatorVars, loaderVars, metadataVars, resourceVars, viewerVars, pagesVars, dialectVars, publishVars, requestVars, previewVars, diagnosticsVars, callsVars, runVars, loadsVars>>
notValidatorVars == <<treeVars, legacyVars, loaderVars, metadataVars, resourceVars, viewerVars, pagesVars, dialectVars, publishVars, requestVars, previewVars, diagnosticsVars, callsVars, runVars, loadsVars>>
notLoaderVars == <<treeVars, legacyVars, validatorVars, metadataVars, resourceVars, viewerVars, pagesVars, dialectVars, publishVars, requestVars, previewVars, diagnosticsVars, callsVars, runVars, loadsVars>>
notMetadataVars == <<treeVars, legacyVars, validatorVars, loaderVars, resourceVars, viewerVars, pagesVars, dialectVars, publishVars, requestVars, previewVars, diagnosticsVars, callsVars, runVars, loadsVars>>
notResourceVars == <<treeVars, legacyVars, validatorVars, loaderVars, metadataVars, viewerVars, pagesVars, dialectVars, publishVars, requestVars, previewVars, diagnosticsVars, callsVars, runVars, loadsVars>>
notViewerVars == <<treeVars, legacyVars, validatorVars, loaderVars, metadataVars, resourceVars, pagesVars, dialectVars, publishVars, requestVars, previewVars, diagnosticsVars, callsVars, runVars, loadsVars>>
notPagesVars == <<treeVars, legacyVars, validatorVars, loaderVars, metadataVars, resourceVars, viewerVars, dialectVars, publishVars, requestVars, previewVars, diagnosticsVars, callsVars, runVars, loadsVars>>
notDialectVars == <<treeVars, legacyVars, validatorVars, loaderVars, metadataVars, resourceVars, viewerVars, pagesVars, publishVars, requestVars, previewVars, diagnosticsVars, callsVars, runVars, loadsVars>>
notPublishVars == <<treeVars, legacyVars, validatorVars, loaderVars, metadataVars, resourceVars, viewerVars, pagesVars, dialectVars, requestVars, previewVars, diagnosticsVars, callsVars, runVars, loadsVars>>
notRequestVars == <<treeVars, legacyVars, validatorVars, loaderVars, metadataVars, resourceVars, viewerVars, pagesVars, dialectVars, publishVars, previewVars, diagnosticsVars, callsVars, runVars, loadsVars>>
notPreviewVars == <<treeVars, legacyVars, validatorVars, loaderVars, metadataVars, resourceVars, viewerVars, pagesVars, dialectVars, publishVars, requestVars, diagnosticsVars, callsVars, runVars, loadsVars>>
notDiagnosticsVars == <<treeVars, legacyVars, validatorVars, loaderVars, metadataVars, resourceVars, viewerVars, pagesVars, dialectVars, publishVars, requestVars, previewVars, callsVars, runVars, loadsVars>>
notCallsVars == <<treeVars, legacyVars, validatorVars, loaderVars, metadataVars, resourceVars, viewerVars, pagesVars, dialectVars, publishVars, requestVars, previewVars, diagnosticsVars, runVars, loadsVars>>
notRunVars == <<treeVars, legacyVars, validatorVars, loaderVars, metadataVars, resourceVars, viewerVars, pagesVars, dialectVars, publishVars, requestVars, previewVars, diagnosticsVars, callsVars, loadsVars>>
notLoadsVars == <<treeVars, legacyVars, validatorVars, loaderVars, metadataVars, resourceVars, viewerVars, pagesVars, dialectVars, publishVars, requestVars, previewVars, diagnosticsVars, callsVars, runVars>>

(***************************************************************************)
(* Bounds of the model.                                                    *)
(***************************************************************************)
MaxPages == 4
MaxEntries == 4
MaxRecords == 5
MaxTokens == 4
MaxProperties == 2
MaxPrefix == 2
MaxNodes == 2
MaxViewerEntries == 1
MaxNavNodes == 2
MaxModernPages == 2
MaxLegacyEntries == 2
MaxDevices == 2
MaxGatherRecords == 2
MaxGatherNodes == 1
MaxCallNodes == 2
MaxCalls == 3
MaxFiles == 2
MaxLoads == 3
MaxSelections == 3
MaxSegments == 5
MaxArchives == 2
MaxMessages == 1
MaxTicks == 3

(***************************************************************************)
(* Helpers on sequences.                                                   *)
(***************************************************************************)
Range(s) == {s[i] : i \in DOMAIN s}

SeqsUpTo(S, n) == UNION {[1..k -> S] : k \in 0..n}

\* The indices of s, in ascending order, whose element satisfies Keep.
RECURSIVE IndicesWhere(_, _, _)
IndicesWhere(n, Keep(_), k) ==
    IF k > n THEN << >>
    ELSE (IF Keep(k) THEN <<k>> ELSE << >>) \o IndicesWhere(n, Keep, k + 1)

(***************************************************************************)
(* Text.  A text is a sequence of characters; the empty sequence is the    *)
(* empty string.                                                           *)
(***************************************************************************)
Digits == {"0", "1", "2", "3", "4", "5", "6", "7", "8", "9"}
Whitespace == {" "}

DigitValue(c) ==
    CASE c = "0" -> 0 [] c = "1" -> 1 [] c = "2" -> 2 [] c = "3" -> 3
      [] c = "4" -> 4 [] c = "5" -> 5 [] c = "6" -> 6 [] c = "7" -> 7
      [] c = "8" -> 8 [] c = "9" -> 9

RECURSIVE TrimStart(_)
TrimStart(t) ==
    IF t # << >> /\ Head(t) \in Whitespace THEN TrimStart(Tail(t)) ELSE t

RECURSIVE TrimEnd(_)
TrimEnd(t) ==
    IF t # << >> /\ t[Len(t)] \in Whitespace
    THEN TrimEnd(SubSeq(t, 1, Len(t) - 1))
    ELSE t

\* String.prototype.trim
Trim(t) == TrimEnd(TrimStart(t))

\* Number.parseInt(t, 10) on a trimmed text: an optional sign, then the
\* longest prefix of digits; NaN when no digit follows.
RECURSIVE DigitsPrefixValue(_, _)
DigitsPrefixValue(t, acc) ==
    IF t # << >> /\ Head(t) \in Digits
    THEN DigitsPrefixValue(Tail(t), 10 * acc + DigitValue(Head(t)))
    ELSE acc
ParseInt(t) ==
    LET signed == t # << >> /\ Head(t) \in {"-", "+"}
        body == IF signed THEN Tail(t) ELSE t
        magnitude == DigitsPrefixValue(body, 0)
    IN  IF body # << >> /\ Head(body) \in Digits
        THEN [isNaN |-> FALSE,
              value |-> IF signed /\ Head(t) = "-" THEN 0 - magnitude ELSE magnitude]
        ELSE [isNaN |-> TRUE, value |-> 0]

\* coerceNumber(value, fallback)
CoerceNumber(value, fallback) ==
    IF value = << >> THEN fallback
    ELSE IF ParseInt(value).isNaN THEN fallback ELSE ParseInt(value).value

(***************************************************************************)
(* The modern manifest as the page-tree builder reads it: the              *)
(* odeNavStructure elements in document order, each with the trimmed text  *)
(* getFirstText finds for its odePageId, pageName, parent and order fields *)
(* (the empty text when the field is absent or blank).                     *)
(***************************************************************************)
PageIdTexts == {<<"a">>, <<"b">>}
ParentTexts == {<< >>, <<"a">>, <<"b">>}
OrderTexts == {<< >>, <<"0">>}

NavStructures ==
    [odePageId : PageIdTexts,
     pageName : {<< >>},
     parent : ParentTexts,
     order : OrderTexts,
     htmlView : {<< >>}]

ModernDocs ==
    [rootName : {"ode"}, odeNavStructure : SeqsUpTo(NavStructures, MaxPages)]

\* `page-${index + 1}`
PagePlaceholder(index) == <<"page-", index + 1>>

\* parseModernPages: one flat record per odeNavStructure, in document order.
ParseModernRecord(navNode, index) ==
    LET id == IF navNode.odePageId # << >> THEN navNode.odePageId
              ELSE PagePlaceholder(index)
        title == IF navNode.pageName # << >> THEN navNode.pageName ELSE id
        parentId == navNode.parent
    IN  [id |-> id,
         title |-> title,
         htmlContent |-> navNode.htmlView,
         parentId |-> IF parentId # << >> /\ parentId # id THEN parentId ELSE << >>,
         order |-> CoerceNumber(navNode.order, index),
         index |-> index]

ParseModernPages(doc) ==
    [i \in 1..Len(doc.odeNavStructure) |->
        ParseModernRecord(doc.odeNavStructure[i], i - 1)]

(***************************************************************************)
(* sortAscending and Array.prototype.sort (stable) with it, on node        *)
(* addresses of a heap of node objects.                                    *)
(***************************************************************************)
SortAscending(a, b) ==
    LET orderDifference == a.order - b.order
    IN  IF orderDifference # 0 THEN orderDifference ELSE a.index - b.index

\* x is put after every element that does not compare greater than it.
RECURSIVE InsertStable(_, _, _)
InsertStable(heap, x, sorted) ==
    IF sorted = << >> THEN <<x>>
    ELSE IF SortAscending(heap[Head(sorted)], heap[x]) > 0 THEN <<x>> \o sorted
    ELSE <<Head(sorted)>> \o InsertStable(heap, x, Tail(sorted))

RECURSIVE SortFrom(_, _, _, _)
SortFrom(heap, nodes, k, sorted) ==
    IF k > Len(nodes) THEN sorted
    ELSE SortFrom(heap, nodes, k + 1, InsertStable(heap, nodes[k], sorted))

Sort(heap, nodes) == SortFrom(heap, nodes, 1, << >>)

(***************************************************************************)
(* buildHierarchy.  The node objects live in a heap indexed by address     *)
(* (the position of the record in flatPages); children arrays hold         *)
(* addresses, as the arrays of the code hold references.  A recursion that *)
(* goes deeper than the number of objects can only be running round a      *)
(* cycle of children arrays: it ends as the engine ends it, with a         *)
(* RangeError.                                                            *)
(***************************************************************************)
RangeError == [threw |-> TRUE, objs |-> << >>]
Running(heap) == [threw |-> FALSE, objs |-> heap]

\* pages = flatPages.map(...)
NewNodes(flat) ==
    [i \in 1..Len(flat) |->
        [id |-> flat[i].id, title |-> flat[i].title,
         htmlContent |-> flat[i].htmlContent, parentId |-> flat[i].parentId,
         order |-> flat[i].order, index |-> flat[i].index, children |-> << >>]]

\* byId: the Map from id to the last page that has it
ByIdKeys(heap) == {heap[i].id : i \in {j \in DOMAIN heap : heap[j].id # << >>}}
ById(heap) ==
    [id \in ByIdKeys(heap) |->
        CHOOSE i \in DOMAIN heap :
            /\ heap[i].id = id
            /\ \A j \in DOMAIN heap : heap[j].id = id => j <= i]

\* the test of the second pages.forEach: the page goes to its parent's children
HasParentUnchecked(byId, page) ==
    /\ page.parentId # << >>
    /\ page.parentId # page.id

HasParent(byId, page) ==
    /\ page.parentId # << >>
    /\ page.parentId \in DOMAIN byId
    /\ page.parentId # page.id

\* the pages pushed to the children array of the page at address p, in push order
ChildrenOf(heap, byId, p) ==
    IndicesWhere(Len(heap),
        LAMBDA i : /\ HasParent(byId, heap[i])
                   /\ heap[i].parentId \in DOMAIN byId
                   /\ byId[heap[i].parentId] = p,
        1)

\* the pages pushed to roots, in push order
RootsOfEveryPage(heap, byId) == IndicesWhere(Len(heap), LAMBDA i : TRUE, 1)

RootsOf(heap, byId) ==
    IndicesWhere(Len(heap), LAMBDA i : ~HasParent(byId, heap[i]), 1)

\* the second pages.forEach of buildHierarchy
LinkPages(heap, byId) ==
    [i \in DOMAIN heap |-> [heap[i] EXCEPT !.children = ChildrenOf(heap, byId, i)]]

\* sortHierarchy(nodes), where nodes is the children array of the node at
\* address owner (the roots array itself is sorted in BuildHierarchy).
RECURSIVE SortHierarchy(_, _, _)
RECURSIVE SortEach(_, _, _, _)
SortEach(st, nodes, k, fuel) ==
    IF st.threw \/ k > Len(nodes) THEN st
    ELSE LET node == nodes[k]
             after == IF Len(st.objs[node].children) > 1
                      THEN SortHierarchy(st, node, fuel - 1)
                      ELSE st
         IN  SortEach(after, nodes, k + 1, fuel)
SortHierarchy(st, owner, fuel) ==
    IF fuel <= 0 THEN RangeError
    ELSE LET sorted == Sort(st.objs, st.objs[owner].children)
         IN  SortEach(Running([st.objs EXCEPT ![owner].children = sorted]),
                      sorted, 1, fuel)

\* assignLevels(nodes, level) passing level on unchanged
RECURSIVE AssignLevelsFlat(_, _, _, _, _)
AssignLevelsFlat(st, nodes, k, level, fuel) ==
    IF st.threw \/ k > Len(nodes) THEN st
    ELSE IF fuel <= 0 THEN RangeError
    ELSE LET node == nodes[k]
             obj == st.objs[node]
             own == Running([st.objs EXCEPT ![node] =
                        [f \in DOMAIN obj \cup {"level"} |->
                            IF f = "level" THEN level ELSE obj[f]]])
             after == IF Len(obj.children) > 0
                      THEN AssignLevelsFlat(own, obj.children, 1, level, fuel - 1)
                      ELSE own
         IN  AssignLevelsFlat(after, nodes, k + 1, level, fuel)

\* assignLevels(nodes, level)
RECURSIVE AssignLevels(_, _, _, _, _)
AssignLevels(st, nodes, k, level, fuel) ==
    IF st.threw \/ k > Len(nodes) THEN st
    ELSE IF fuel <= 0 THEN RangeError
    ELSE LET node == nodes[k]
             obj == st.objs[node]
             own == Running([st.objs EXCEPT ![node] =
                        [f \in DOMAIN obj \cup {"level"} |->
                            IF f = "level" THEN level ELSE obj[f]]])
             after == IF Len(obj.children) > 0
                      THEN AssignLevels(own, obj.children, 1, level + 1, fuel - 1)
                      ELSE own
         IN  AssignLevels(after, nodes, k + 1, level, fuel)

\* nodes.forEach(cleanNode)
RECURSIVE CleanNodes(_, _, _, _)
CleanNodes(st, nodes, k, fuel) ==
    IF st.threw \/ k > Len(nodes) THEN st
    ELSE IF fuel <= 0 THEN RangeError
    ELSE LET node == nodes[k]
             obj == st.objs[node]
             own == Running([st.objs EXCEPT ![node] =
                        [f \in DOMAIN obj \ {"parentId", "index"} |-> obj[f]]])
             after == IF Len(obj.children) > 0
                      THEN CleanNodes(own, obj.children, 1, fuel - 1)
                      ELSE own
         IN  CleanNodes(after, nodes, k + 1, fuel)

\* buildHierarchy(flatPages): the heap it leaves and the roots array it returns
BuildHierarchy(flat) ==
    LET fuel == Len(flat) + 1
        byId == ById(NewNodes(flat))
        linked == LinkPages(NewNodes(flat), byId)
        roots == Sort(linked, RootsOf(linked, byId))
        sortedHeap == SortEach(Running(linked), roots, 1, fuel)
        levelled == AssignLevels(sortedHeap, roots, 1, 0, fuel)
        cleaned == CleanNodes(levelled, roots, 1, fuel)
    IN  IF cleaned.threw
        THEN [threw |-> TRUE, heap |-> linked, roots |-> << >>]
        ELSE [threw |-> FALSE, heap |-> cleaned.objs, roots |-> roots]

(***************************************************************************)
(* generateElpViewData on a modern manifest.                               *)
(***************************************************************************)
LowerCase(name) == IF name = "ODE" THEN "ode" ELSE name

GenerateElpViewData ==
    /\ treePc = "ready"
    /\ LowerCase(xmlDoc.rootName) = "ode"
    /\ \E flat \in {ParseModernPages(xmlDoc)} :
          /\ flatPages' = flat
          /\ IF Len(flat) = 0
             THEN /\ pages' = << >>
                  /\ viewData' = [threw |-> FALSE, roots |-> << >>]
             ELSE \E built \in {BuildHierarchy(flat)} :
                  /\ pages' = built.heap
                  /\ viewData' = [threw |-> built.threw, roots |-> built.roots]
    /\ treePc' = "done"
    /\ UNCHANGED <<xmlDoc, notTreeVars>>

(***************************************************************************)
(* JavaScript values of the metadata maps: strings, arrays and objects     *)
(* (maps from string keys).  A legacy property value is any of the three;  *)
(* each is tagged with its type.  An attribute that an element may lack is *)
(* the empty sequence when absent and <<its value>> when present           *)
(* (getAttribute returns null or a string).                                *)
(***************************************************************************)
Str(s) == [type |-> "string", value |-> s]
Arr(items) == [type |-> "array", value |-> items]
Obj(map) == [type |-> "object", value |-> map]
EmptyMap == [k \in {} |-> Str("")]

NoAttr == << >>
Attr(s) == <<s>>

\* ToBoolean of a tagged value: the empty string is the only falsy one here
Truthy(v) == ~(v.type = "string" /\ v.value = "")

\* map[key] = value on an object
Put(map, key, value) ==
    [k \in DOMAIN map \cup {key} |-> IF k = key THEN value ELSE map[k]]

\* result[key] = value on an object literal: the key __proto__ is the
\* prototype accessor, which creates no property of the object
Assign(map, key, value) ==
    IF key = "__proto__" THEN map ELSE Put(map, key, value)

(***************************************************************************)
(* Elements of a legacy manifest: local name, the role and value           *)
(* attributes, the text content and the child elements.                    *)
(***************************************************************************)
Element(localName, role, value, textContent, children) ==
    [localName |-> localName, role |-> role, value |-> value,
     textContent |-> textContent, children |-> children]

KeyMarker(key) == Element("string", Attr("key"), Attr(key), "", << >>)
Unicode(value) == Element("unicode", NoAttr, Attr(value), "", << >>)

\* findFirstChildByLocalName(node, localName): <<child>>, or << >> when none
RECURSIVE FindFirstChildByLocalName(_, _)
FindFirstChildByLocalName(children, localName) ==
    IF children = << >> THEN << >>
    ELSE IF Head(children).localName = localName THEN <<Head(children)>>
    ELSE FindFirstChildByLocalName(Tail(children), localName)

\* extractLegacyDictionary, extractLegacyList, extractLegacyInstance and
\* extractLegacyValue call each other.
RECURSIVE ExtractLegacyValue(_)
RECURSIVE ScanDictionary(_, _, _)
RECURSIVE ExtractLegacyListFrom(_, _)

\* the for loop of extractLegacyDictionary, from position index on
ScanDictionary(children, index, result) ==
    IF index > Len(children) THEN result
    ELSE LET child == children[index]
             key == IF child.value # NoAttr /\ child.value[1] # ""
                    THEN child.value[1]
                    ELSE child.textContent
         IN  IF child.role # Attr("key") THEN ScanDictionary(children, index + 1, result)
             ELSE IF key = "" THEN ScanDictionary(children, index + 1, result)
             ELSE IF index + 1 <= Len(children)
                  THEN ScanDictionary(children, index + 2,
                           Assign(result, key, ExtractLegacyValue(children[index + 1])))
                  ELSE ScanDictionary(children, index + 1, result)

ExtractLegacyDictionary(dictionaryNode) ==
    ScanDictionary(dictionaryNode.children, 1, EmptyMap)

ExtractLegacyInstance(instanceNode) ==
    LET dictionary == FindFirstChildByLocalName(instanceNode.children, "dictionary")
    IN  IF dictionary # << >> THEN ExtractLegacyDictionary(dictionary[1]) ELSE EmptyMap

ExtractLegacyListFrom(children, k) ==
    IF k > Len(children) THEN << >>
    ELSE <<ExtractLegacyValue(children[k])>> \o ExtractLegacyListFrom(children, k + 1)

ExtractLegacyList(listNode) == ExtractLegacyListFrom(listNode.children, 1)

ExtractLegacyValue(node) ==
    CASE node.localName \in {"unicode", "string", "bool", "int"} ->
            Str(IF node.value # NoAttr THEN node.value[1] ELSE node.textContent)
      [] node.localName = "list" -> Arr(ExtractLegacyList(node))
      [] node.localName = "dictionary" -> Obj(ExtractLegacyDictionary(node))
      [] node.localName = "instance" -> Obj(ExtractLegacyInstance(node))
      [] OTHER -> Str(node.textContent)

(***************************************************************************)
(* A legacy manifest: the attributes and child elements of its root        *)
(* element; hasRoot is FALSE for a document without documentElement.       *)
(***************************************************************************)
NullMetadata == [isNull |-> TRUE, properties |-> EmptyMap, resources |-> EmptyMap]
Metadata(properties, resources) ==
    [isNull |-> FALSE, properties |-> properties, resources |-> resources]

\* extractLegacyMetadata
ExtractLegacyMetadataOf(doc) ==
    IF ~doc.hasRoot THEN NullMetadata
    ELSE LET topDictionary == FindFirstChildByLocalName(doc.children, "dictionary")
             properties == ExtractLegacyDictionary(topDictionary[1])
             withVersion ==
                 IF doc.version # NoAttr /\ doc.version[1] # ""
                 THEN Put(properties, "legacy_manifest_version", Str(doc.version[1]))
                 ELSE properties
             withClass ==
                 IF doc.class # NoAttr /\ doc.class[1] # ""
                 THEN Put(withVersion, "legacy_manifest_class", Str(doc.class[1]))
                 ELSE withVersion
         IN  IF topDictionary = << >> THEN Metadata(EmptyMap, EmptyMap)
             ELSE Metadata(withClass, EmptyMap)

\* one `if (properties.legacy && !properties.modern)` of normalizeLegacyMetadata
CopyLegacyKey(properties, legacy, modern) ==
    IF /\ legacy \in DOMAIN properties /\ Truthy(properties[legacy])
       /\ ~(modern \in DOMAIN properties /\ Truthy(properties[modern]))
    THEN Put(properties, modern, properties[legacy])
    ELSE properties

\* the pairs of normalizeLegacyMetadata, in the order of its if statements
LegacyKeyPairs ==
    << <<"_title", "pp_title">>, <<"_author", "pp_author">>, <<"_lang", "pp_lang">>,
       <<"_description", "pp_description">>, <<"_newlicense", "license">> >>

RECURSIVE CopyLegacyKeys(_, _)
CopyLegacyKeys(properties, k) ==
    IF k > Len(LegacyKeyPairs) THEN properties
    ELSE CopyLegacyKeys(
             CopyLegacyKey(properties, LegacyKeyPairs[k][1], LegacyKeyPairs[k][2]),
             k + 1)

\* normalizeLegacyMetadata
NormalizeLegacyMetadataOf(metadata) ==
    IF metadata.isNull THEN NullMetadata
    ELSE Metadata(CopyLegacyKeys(metadata.properties, 1), metadata.resources)

(***************************************************************************)
(* The inputs: legacy manifests whose top dictionary has at most           *)
(* MaxEntries child elements, and metadata as extractLegacyMetadata can    *)
(* return it for larger dictionaries.                                      *)
(***************************************************************************)
EntryElements ==
    {KeyMarker("_title"), KeyMarker("pp_title"), KeyMarker("__proto__"),
     Unicode("Legacy Title"), Unicode(""),
     Element("list", NoAttr, NoAttr, "", <<Unicode("item")>>),
     Element("string", Attr("key"), NoAttr, "", << >>)}

TopDictionaries ==
    {Element("dictionary", NoAttr, NoAttr, "", children) :
        children \in SeqsUpTo(EntryElements, MaxEntries)}

OtherElement == Element("meta", NoAttr, NoAttr, "x", << >>)

LegacyDocs ==
    [hasRoot : {TRUE},
     version : {NoAttr, Attr(""), Attr("0.3")},
     class : {NoAttr, Attr("exe.engine.package.Package")},
     children : {<< >>, <<OtherElement>>} \cup {<<d>> : d \in TopDictionaries}
                \cup {<<OtherElement, d>> : d \in TopDictionaries}]
    \cup {[hasRoot |-> FALSE, version |-> NoAttr, class |-> NoAttr, children |-> << >>]}

\* for each pair, the legacy key absent or set and the modern key absent,
\* empty or set
PairValues == {<< >>, <<"">>, <<"set">>}
PairChoices == [1..Len(LegacyKeyPairs) -> [legacy : {<< >>, <<"legacy">>}, modern : PairValues]]
PropertiesOfChoice(choice) ==
    LET legacyKeys == {LegacyKeyPairs[k][1] : k \in {j \in DOMAIN choice : choice[j].legacy # << >>}}
        modernKeys == {LegacyKeyPairs[k][2] : k \in {j \in DOMAIN choice : choice[j].modern # << >>}}
        PairOf(key) == CHOOSE k \in DOMAIN LegacyKeyPairs :
                           key \in {LegacyKeyPairs[k][1], LegacyKeyPairs[k][2]}
    IN  [key \in legacyKeys \cup modernKeys |->
            IF key \in legacyKeys THEN Str(choice[PairOf(key)].legacy[1])
            ELSE Str(choice[PairOf(key)].modern[1])]
ExtractedMetadata ==
    {Metadata(PropertiesOfChoice(choice), EmptyMap) : choice \in PairChoices}

NoLegacyDoc == [hasRoot |-> FALSE, version |-> NoAttr, class |-> NoAttr, children |-> << >>]

\* extractLegacyMetadata(xmlDoc)
ExtractLegacyMetadata ==
    /\ legacyPc = "ready"
    /\ legacyMetadata' = ExtractLegacyMetadataOf(legacyDoc)
    /\ legacyPc' = "extracted"
    /\ UNCHANGED <<legacyDoc, normalizedMetadata, notLegacyVars>>

\* normalizeLegacyMetadata(metadata)
NormalizeLegacyMetadata ==
    /\ legacyPc = "extracted"
    /\ normalizedMetadata' = NormalizeLegacyMetadataOf(legacyMetadata)
    /\ legacyPc' = "normalized"
    /\ UNCHANGED <<legacyDoc, legacyMetadata, notLegacyVars>>

(***************************************************************************)
(* Strings built by template literals and join: a string is the sequence   *)
(* of its parts.                                                           *)
(***************************************************************************)
DigitText(d) ==
    CASE d = 0 -> "0" [] d = 1 -> "1" [] d = 2 -> "2" [] d = 3 -> "3" [] d = 4 -> "4"
      [] d = 5 -> "5" [] d = 6 -> "6" [] d = 7 -> "7" [] d = 8 -> "8" [] d = 9 -> "9"

\* `${n}` for a number n >= 0
RECURSIVE DecimalText(_)
DecimalText(n) ==
    IF n < 10 THEN <<DigitText(n)>>
    ELSE DecimalText(n \div 10) \o <<DigitText(n % 10)>>

\* Array.prototype.join on an array of strings
RECURSIVE Join(_, _)
Join(strings, separator) ==
    IF strings = << >> THEN << >>
    ELSE IF Len(strings) = 1 THEN strings[1]
    ELSE strings[1] \o <<separator>> \o Join(Tail(strings), separator)

(***************************************************************************)
(* The modern manifest as the structural checks read it: the page records  *)
(* (odeNavStructure), blocks (odePagStructure) and components              *)
(* (odeComponent) in document order, each with the tag names of its own    *)
(* child fields.  A block lies inside the page record before it and a      *)
(* component inside the block before it.                                   *)
(***************************************************************************)
REQUIRED_NAV_FIELDS ==
    << <<"odePageId">>, <<"pageName">>,
       <<"odeNavStructureSyncOrder", "odeNavStructureOrder">> >>
REQUIRED_BLOCK_FIELDS == << <<"odeBlockId">>, <<"blockName">> >>
REQUIRED_COMPONENT_FIELDS ==
    << <<"odeIdeviceId">>, <<"odeIdeviceTypeName">>, <<"htmlView">>, <<"jsonProperties">> >>

NavFieldSets ==
    {{"odePageId", "pageName", "odeNavStructureOrder"},
     {"pageName", "odeNavStructureSyncOrder"},
     {"odePageId"}}
BlockFieldSets ==
    {{"odePageId", "odeBlockId", "blockName"},
     {"odeBlockId", "blockName"},
     {"blockName"}}
ComponentFieldSets ==
    {{"odePageId", "odeBlockId", "odeIdeviceId", "odeIdeviceTypeName", "htmlView",
      "jsonProperties"},
     {"odeIdeviceId", "odeIdeviceTypeName", "htmlView", "jsonProperties"},
     {"odeIdeviceId"}}

StructureRecords ==
    [tagName : {"odeNavStructure"}, fields : NavFieldSets]
    \cup [tagName : {"odePagStructure"}, fields : BlockFieldSets]
    \cup [tagName : {"odeComponent"}, fields : ComponentFieldSets]

\* the closest position before p of a record with one of the tag names (0: none)
LastBefore(doc, p, tagNames) ==
    LET before == {q \in 1..(p - 1) : doc[q].tagName \in tagNames}
    IN  IF before = {} THEN 0 ELSE CHOOSE q \in before : \A r \in before : r <= q

WellNested(doc) ==
    \A p \in DOMAIN doc :
        /\ doc[p].tagName = "odePagStructure" =>
               LastBefore(doc, p, {"odeNavStructure"}) # 0
        /\ doc[p].tagName = "odeComponent" =>
               LastBefore(doc, p, {"odePagStructure"})
                   > LastBefore(doc, p, {"odeNavStructure"})

StructureDocs == {doc \in SeqsUpTo(StructureRecords, MaxRecords) : WellNested(doc)}

\* the last position of the element that starts at position p
LastInside(doc, p) ==
    LET closing == CASE doc[p].tagName = "odeNavStructure" -> {"odeNavStructure"}
                     [] doc[p].tagName = "odePagStructure" ->
                            {"odeNavStructure", "odePagStructure"}
                     [] OTHER -> {"odeNavStructure", "odePagStructure", "odeComponent"}
        after == {q \in (p + 1)..Len(doc) : doc[q].tagName \in closing}
    IN  IF after = {} THEN Len(doc)
        ELSE (CHOOSE q \in after : \A r \in after : q <= r) - 1

\* the positions, in document order, of a set of positions
RECURSIVE InDocumentOrder(_, _, _)
InDocumentOrder(S, from, to) ==
    IF from > to THEN << >>
    ELSE (IF from \in S THEN <<from>> ELSE << >>) \o InDocumentOrder(S, from + 1, to)

\* xmlDoc.getElementsByTagName(tagName) for a record tag
DocElementsByTagName(doc, tagName) ==
    InDocumentOrder({q \in DOMAIN doc : doc[q].tagName = tagName}, 1, Len(doc))

\* node.getElementsByTagName(tagName) for a record tag: the records inside p
ElementsByTagName(doc, p, tagName) ==
    InDocumentOrder({q \in (p + 1)..LastInside(doc, p) : doc[q].tagName = tagName},
                    p + 1, LastInside(doc, p))

\* node.getElementsByTagName(tag)[0] for a field tag: found anywhere inside p
HasElementByTagName(doc, p, tag) ==
    \E q \in p..LastInside(doc, p) : tag \in doc[q].fields

\* formatRequirement
FormatRequirement(requirement) == Join([i \in DOMAIN requirement |-> <<requirement[i]>>], " / ")

\* ensureChildTags(node, requiredTags): the formatted missing requirements
RECURSIVE EnsureChildTagsFrom(_, _, _, _)
EnsureChildTagsFrom(doc, p, requiredTags, k) ==
    IF k > Len(requiredTags) THEN << >>
    ELSE LET tags == requiredTags[k]
             hasAny == \E i \in DOMAIN tags : HasElementByTagName(doc, p, tags[i])
         IN  (IF ~hasAny THEN <<FormatRequirement(tags)>> ELSE << >>)
             \o EnsureChildTagsFrom(doc, p, requiredTags, k + 1)

EnsureChildTags(doc, p, requiredTags) == EnsureChildTagsFrom(doc, p, requiredTags, 1)

\* the three issue texts of validateStructuralIntegrity
NavIssue(index, missing) ==
    <<"Navigation structure #">> \o DecimalText(index + 1)
    \o <<" is missing fields: ">> \o Join(missing, ", ")
BlockIssue(blockIndex, index, missing) ==
    <<"Block #">> \o DecimalText(blockIndex + 1) \o <<" in page #">>
    \o DecimalText(index + 1) \o <<" is missing fields: ">> \o Join(missing, ", ")
ComponentIssue(componentIndex, blockIndex, index, missing) ==
    <<"Component #">> \o DecimalText(componentIndex + 1) \o <<" in block #">>
    \o DecimalText(blockIndex + 1) \o <<" of page #">> \o DecimalText(index + 1)
    \o <<" is missing fields: ">> \o Join(missing, ", ")

\* Array.from(components).forEach
RECURSIVE ComponentIssues(_, _, _, _, _)
ComponentIssues(doc, components, componentIndex, blockIndex, index) ==
    IF componentIndex >= Len(components) THEN << >>
    ELSE LET missing == EnsureChildTags(doc, components[componentIndex + 1],
                                        REQUIRED_COMPONENT_FIELDS)
         IN  (IF Len(missing) > 0
              THEN <<ComponentIssue(componentIndex, blockIndex, index, missing)>>
              ELSE << >>)
             \o ComponentIssues(doc, components, componentIndex + 1, blockIndex, index)

\* Array.from(pageStructures).forEach
RECURSIVE BlockIssues(_, _, _, _)
BlockIssues(doc, pageStructures, blockIndex, index) ==
    IF blockIndex >= Len(pageStructures) THEN << >>
    ELSE LET pageStructure == pageStructures[blockIndex + 1]
             missing == EnsureChildTags(doc, pageStructure, REQUIRED_BLOCK_FIELDS)
             components == ElementsByTagName(doc, pageStructure, "odeComponent")
         IN  (IF Len(missing) > 0 THEN <<BlockIssue(blockIndex, index, missing)>>
              ELSE << >>)
             \o ComponentIssues(doc, components, 0, blockIndex, index)
             \o BlockIssues(doc, pageStructures, blockIndex + 1, index)

\* navStructures.forEach
RECURSIVE NavIssues(_, _, _)
NavIssues(doc, navStructures, index) ==
    IF index >= Len(navStructures) THEN << >>
    ELSE LET navStructure == navStructures[index + 1]
             missing == EnsureChildTags(doc, navStructure, REQUIRED_NAV_FIELDS)
             pageStructures == ElementsByTagName(doc, navStructure, "odePagStructure")
         IN  (IF Len(missing) > 0 THEN <<NavIssue(index, missing)>> ELSE << >>)
             \o BlockIssues(doc, pageStructures, 0, index)
             \o NavIssues(doc, navStructures, index + 1)

\* the issues array when the function returns
Issues(doc) == NavIssues(doc, DocElementsByTagName(doc, "odeNavStructure"), 0)

\* validateStructuralIntegrity
ValidateStructuralIntegrityOf(doc) ==
    LET issues == Issues(doc)
    IN  IF Len(issues) > 0
        THEN [status |-> "error", message |-> Join(issues, " ")]
        ELSE [status |-> "success",
              message |-> <<"The internal XML structure matches the expected layout.">>]

\* the message of checkPagePresence for a page count
PluralSwapped(count) == IF count = 1 THEN <<"s">> ELSE << >>

Plural(count) == IF count = 1 THEN << >> ELSE <<"s">>

\* checkPagePresence
CheckPagePresenceOf(doc) ==
    LET found == DocElementsByTagName(doc, "odeNavStructure")
    IN  IF Len(found) = 0
        THEN [status |-> "warning",
              message |-> <<"No <odeNavStructure> entries were found. The project appears to be empty.">>]
        ELSE [status |-> "success",
              message |-> <<"Found ">> \o DecimalText(Len(found)) \o <<" page">>
                          \o Plural(Len(found)) \o <<".">>]

NotRun == [status |-> "none", message |-> << >>]

CheckPagePresence ==
    /\ pagePresence = NotRun
    /\ pagePresence' = CheckPagePresenceOf(validatedDoc)
    /\ UNCHANGED <<validatedDoc, structuralIntegrity, notValidatorVars>>

ValidateStructuralIntegrity ==
    /\ structuralIntegrity = NotRun
    /\ structuralIntegrity' = ValidateStructuralIntegrityOf(validatedDoc)
    /\ UNCHANGED <<validatedDoc, pagePresence, notValidatorVars>>

(***************************************************************************)
(* The XML loader.  A payload is a value of some JS type; a string payload *)
(* is a sequence of markup tokens: start tags, end tags and character      *)
(* data.  A text is a sequence of characters.                              *)
(***************************************************************************)
StartTags == {"<ode>", "<parsererror>"}
EndTags == {"</ode>", "</parsererror>"}
XmlTokens == StartTags \cup EndTags \cup {"text"}

LocalName(token) ==
    CASE token \in {"<ode>", "</ode>"} -> "ode"
      [] token \in {"<parsererror>", "</parsererror>"} -> "parsererror"

Payloads ==
    [type : {"string"}, tokens : SeqsUpTo(XmlTokens, MaxTokens)]
    \cup [type : {"undefined", "null", "number", "object"}, tokens : {<< >>}]

\* XML well-formedness: one root element, properly nested tags, character
\* data only inside the root.  open holds the names of the open elements.
RECURSIVE WellFormedFrom(_, _, _)
WellFormedFrom(tokens, k, open) ==
    IF k > Len(tokens) THEN open = << >> /\ Len(tokens) > 0
    ELSE IF open = << >>
         THEN /\ k = 1
              /\ tokens[k] \in StartTags
              /\ WellFormedFrom(tokens, k + 1, <<LocalName(tokens[k])>>)
         ELSE CASE tokens[k] \in StartTags ->
                       WellFormedFrom(tokens, k + 1, <<LocalName(tokens[k])>> \o open)
                [] tokens[k] \in EndTags ->
                       /\ Head(open) = LocalName(tokens[k])
                       /\ WellFormedFrom(tokens, k + 1, Tail(open))
                [] OTHER -> WellFormedFrom(tokens, k + 1, open)

WellFormed(tokens) == WellFormedFrom(tokens, 1, << >>)

\* the text content of the element whose start tag is at position k - 1:
\* the character data up to its end tag
RECURSIVE TextContentFrom(_, _, _)
TextContentFrom(tokens, k, depth) ==
    IF k > Len(tokens) THEN << >>
    ELSE CASE tokens[k] \in StartTags -> TextContentFrom(tokens, k + 1, depth + 1)
           [] tokens[k] \in EndTags ->
                  IF depth = 0 THEN << >> ELSE TextContentFrom(tokens, k + 1, depth - 1)
           [] OTHER -> <<"t">> \o TextContentFrom(tokens, k + 1, depth)

\* the elements of a document, in document order
RECURSIVE ElementsFrom(_, _)
ElementsFrom(tokens, k) ==
    IF k > Len(tokens) THEN << >>
    ELSE (IF tokens[k] \in StartTags
          THEN <<[localName |-> LocalName(tokens[k]),
                  textContent |-> TextContentFrom(tokens, k + 1, 0)]>>
          ELSE << >>) \o ElementsFrom(tokens, k + 1)

\* the detail texts a parser may put into its parsererror element
ParserDetails == {<< >>, <<" ">>, <<"e", " ">>}

\* DOMParser.parseFromString(xmlString, 'application/xml'): the document, or
\* for a text that is not well-formed a document holding a parsererror
\* element
ParseFromString(tokens, detail) ==
    IF WellFormed(tokens) THEN ElementsFrom(tokens, 1)
    ELSE <<[localName |-> "parsererror", textContent |-> detail]>>

\* document.querySelector(name): the first element with the name, if any
QuerySelector(document, name) ==
    LET matches == {i \in DOMAIN document : document[i].localName = name}
    IN  IF matches = {} THEN << >>
        ELSE <<document[CHOOSE i \in matches : \A j \in matches : i <= j]>>

ParseError(message) == [status |-> "error", message |-> message, document |-> << >>]
ParseSuccess(document) ==
    [status |-> "success", message |-> << >>, document |-> <<document>>]

\* parseContentXml once the parser has produced the document parsed
ParseContentXmlOf(payload, parsed) ==
    IF payload.type # "string"
    THEN ParseError(<<"The provided XML payload is not a string.">>)
    ELSE LET parserError == QuerySelector(parsed, "parsererror")
         IN  IF parserError # << >>
             THEN LET detail == Trim(parserError[1].textContent)
                  IN  IF detail # << >>
                      THEN ParseError(<<"The XML document is not well-formed: ">> \o detail)
                      ELSE ParseError(<<"The XML document is not well-formed.">>)
             ELSE ParseSuccess(parsed)

NotParsed == [status |-> "none", message |-> << >>, document |-> << >>]

ParseContentXml ==
    /\ loaderPc = "ready"
    /\ \E detail \in ParserDetails :
           parseResult' = ParseContentXmlOf(xmlString,
                                            ParseFromString(xmlString.tokens, detail))
    /\ loaderPc' = "done"
    /\ UNCHANGED <<xmlString, notLoaderVars>>

(***************************************************************************)
(* Metadata of a modern manifest.  The document is the sequence of its     *)
(* odeProperty and odeResource records in document order; a record has an  *)
(* optional key element and an optional value element with their texts.    *)
(***************************************************************************)
NoNode == << >>
Node(textContent) == <<textContent>>

KeyTexts == {<< >>, <<" ">>, <<"a">>, <<" ", "a", " ">>, <<"__proto__">>}
ValueTexts == {<<" ">>, <<"x">>, <<" ", "y", " ">>}

MetadataRecords ==
    [tagName : {"odeProperty", "odeResource"},
     key : {NoNode} \cup {Node(t) : t \in KeyTexts},
     value : {NoNode} \cup {Node(t) : t \in ValueTexts}]

MetadataDocs == SeqsUpTo(MetadataRecords, MaxProperties)

\* object[key] = value on an object literal: the key __proto__ names the
\* prototype accessor, which ignores a string and creates no property
SetProperty(object, key, value) ==
    IF key = <<"__proto__">> THEN object ELSE Put(object, key, value)

\* the body of propertyNodes.forEach / resourceNodes.forEach
ScanRecord(record, bucket) ==
    LET keyNode == record.key
        valueNode == record.value
    IN  IF keyNode = NoNode \/ keyNode[1] = << >> THEN bucket
        ELSE LET key == Trim(keyNode[1])
                 value == IF valueNode # NoNode /\ valueNode[1] # << >>
                          THEN Trim(valueNode[1]) ELSE << >>
             IN  IF key # << >> THEN SetProperty(bucket, key, value) ELSE bucket

RECURSIVE ScanRecords(_, _, _, _)
ScanRecords(doc, tagName, k, bucket) ==
    IF k > Len(doc) THEN bucket
    ELSE ScanRecords(doc, tagName, k + 1,
                     IF doc[k].tagName = tagName THEN ScanRecord(doc[k], bucket)
                     ELSE bucket)

\* extractMetadata
ExtractMetadataOf(doc) ==
    [properties |-> ScanRecords(doc, "odeProperty", 1, EmptyMap),
     resources |-> ScanRecords(doc, "odeResource", 1, EmptyMap)]

NoMetadata == [properties |-> EmptyMap, resources |-> EmptyMap]

ExtractMetadata ==
    /\ metadataPc = "ready"
    /\ modernMetadata' = ExtractMetadataOf(metadataDoc)
    /\ metadataPc' = "done"
    /\ UNCHANGED <<metadataDoc, notMetadataVars>>

(***************************************************************************)
(* Resource references.  A path is a text whose characters are ".", "/",   *)
(* the backslash and a space, the folder name "content" taken as one unit, *)
(* a file-name character "x", a bare "%" and the escapes "%25" and "%20".  *)
(***************************************************************************)
PrefixAtoms == {".", "/", "\\"}
Suffixes == {<< >>, <<"%">>, <<"%25">>, <<"%20", "x">>}

ReferenceValues ==
    {<< >>, <<"content">>}
    \cup {prefix \o <<"content", "/">> \o suffix :
            prefix \in SeqsUpTo(PrefixAtoms, MaxPrefix), suffix \in Suffixes}

\* A thrown URIError, and a returned text
URIError == [threw |-> TRUE, text |-> << >>]
Returned(text) == [threw |-> FALSE, text |-> text]

\* decodeURIComponent: escapes are replaced by their characters; a "%" that
\* starts no escape throws
RECURSIVE DecodeURIComponent(_)
DecodeURIComponent(t) ==
    IF t = << >> THEN Returned(<< >>)
    ELSE IF Head(t) = "%" THEN URIError
    ELSE LET rest == DecodeURIComponent(Tail(t))
             decoded == CASE Head(t) = "%25" -> "%"
                          [] Head(t) = "%20" -> " "
                          [] OTHER -> Head(t)
         IN  IF rest.threw THEN URIError ELSE Returned(<<decoded>> \o rest.text)

\* encodeURI: "%", the space and the backslash are escaped
EncodeURI(t) ==
    [i \in 1..Len(t) |-> CASE t[i] = "%" -> "%25"
                           [] t[i] = " " -> "%20"
                           [] t[i] = "\\" -> "%5C"
                           [] OTHER -> t[i]]

\* .replace(/^\.\//, '')
StripLeadingDotSlash(t) ==
    IF Len(t) >= 2 /\ t[1] = "." /\ t[2] = "/" THEN SubSeq(t, 3, Len(t)) ELSE t

\* .replace(/^\//, '')
StripLeadingSlash(t) == IF Len(t) >= 1 /\ t[1] = "/" THEN Tail(t) ELSE t

\* .replace(/\\/g, '/')
ReplaceBackslashes(t) == [i \in 1..Len(t) |-> IF t[i] = "\\" THEN "/" ELSE t[i]]

\* normalizeResourcePath
NormalizeResourcePath(path) ==
    LET decoded == DecodeURIComponent(Trim(path))
    IN  IF decoded.threw THEN URIError
        ELSE Returned(ReplaceBackslashes(
                          StripLeadingSlash(StripLeadingDotSlash(decoded.text))))

\* RESOURCE_FOLDER_REGEX.test(value)
ResourceFolderTest(value) ==
    \E i \in 1..(Len(value) - 1) : value[i] \in {"content", "custom"} /\ value[i + 1] = "/"

(***************************************************************************)
(* The htmlView and jsonProperties nodes of a manifest, in document order. *)
(* The text of a node is markup whose src/href attributes carry the values *)
(* of the node, or the JSON text of the array of these values.             *)
(***************************************************************************)
ResourceNodes ==
    [tagName : {"htmlView", "jsonProperties"},
     kind : {"markup", "json"},
     values : SeqsUpTo(ReferenceValues, 1)]

ResourceDocs == SeqsUpTo(ResourceNodes, MaxNodes)

\* the successive match[1] of RESOURCE_ATTRIBUTE_REGEX.exec(text): the
\* non-empty attribute values; the JSON text of an array has no attribute
AttributeValues(node) ==
    IF node.kind = "markup" THEN SelectSeq(node.values, LAMBDA v : v # << >>) ELSE << >>

\* the Set resourcePaths, in insertion order, and whether an error escaped
PathSet(paths) == [threw |-> FALSE, paths |-> paths]
Thrown(paths) == [threw |-> TRUE, paths |-> paths]

\* resourcePaths.add(normalizeResourcePath(value)) behind the folder test
AddResourcePath(acc, value) ==
    IF ~ResourceFolderTest(value) THEN acc
    ELSE LET normalized == NormalizeResourcePath(value)
         IN  IF normalized.threw THEN Thrown(acc.paths)
             ELSE IF \E i \in DOMAIN acc.paths : acc.paths[i] = normalized.text
                  THEN acc
                  ELSE PathSet(Append(acc.paths, normalized.text))

\* while ((match = RESOURCE_ATTRIBUTE_REGEX.exec(text)) !== null)
RECURSIVE ScanAttributes(_, _, _)
ScanAttributes(acc, values, k) ==
    IF acc.threw \/ k > Len(values) THEN acc
    ELSE ScanAttributes(AddResourcePath(acc, values[k]), values, k + 1)

\* collectPathsFromJson on the items of an array: an empty string is falsy
RECURSIVE CollectPathsFromJson(_, _, _)
CollectPathsFromJson(acc, items, k) ==
    IF acc.threw \/ k > Len(items) THEN acc
    ELSE CollectPathsFromJson(
             IF items[k] = << >> THEN acc ELSE AddResourcePath(acc, items[k]),
             items, k + 1)

\* the body of htmlNodes.forEach
ScanHtmlNode(acc, node) == ScanAttributes(acc, AttributeValues(node), 1)

\* the body of jsonNodes.forEach: JSON.parse throws on markup; the catch
\* also takes an error of collectPathsFromJson
ScanJsonNode(acc, node) ==
    IF node.kind = "json"
    THEN LET collected == CollectPathsFromJson(acc, node.values, 1)
         IN  IF collected.threw
             THEN ScanAttributes(PathSet(collected.paths), AttributeValues(node), 1)
             ELSE collected
    ELSE ScanAttributes(acc, AttributeValues(node), 1)

RECURSIVE ScanHtmlNodes(_, _, _)
ScanHtmlNodes(acc, doc, k) ==
    IF acc.threw \/ k > Len(doc) THEN acc
    ELSE ScanHtmlNodes(IF doc[k].tagName = "htmlView" THEN ScanHtmlNode(acc, doc[k])
                       ELSE acc, doc, k + 1)

RECURSIVE ScanJsonNodes(_, _, _)
ScanJsonNodes(acc, doc, k) ==
    IF acc.threw \/ k > Len(doc) THEN acc
    ELSE ScanJsonNodes(IF doc[k].tagName = "jsonProperties" THEN ScanJsonNode(acc, doc[k])
                       ELSE acc, doc, k + 1)

\* extractResourcePaths
ExtractResourcePathsOf(doc) ==
    ScanJsonNodes(ScanHtmlNodes(PathSet(<< >>), doc, 1), doc, 1)

\* zip.file(name): the file with that name, if any
ZipNames == {<<"content", "/">>, <<"content", "/", "%20", "x">>}
ZipFile(zip, name) == name \in zip

\* findMissingResources: paths.forEach
RECURSIVE FindMissingFrom(_, _, _, _)
FindMissingFrom(acc, paths, zip, k) ==
    IF acc.threw \/ k > Len(paths) THEN acc
    ELSE LET normalized == NormalizeResourcePath(paths[k])
         IN  FindMissingFrom(
                 IF normalized.threw THEN Thrown(acc.paths)
                 ELSE IF ~ZipFile(zip, normalized.text)
                         /\ ~ZipFile(zip, EncodeURI(normalized.text))
                      THEN PathSet(Append(acc.paths, paths[k]))
                      ELSE acc,
                 paths, zip, k + 1)

FindMissingResourcesOf(paths, zip) ==
    IF Len(paths) = 0 THEN PathSet(<< >>)
    ELSE FindMissingFrom(PathSet(<< >>), paths, zip, 1)

ExtractResourcePaths ==
    /\ resourcePc = "ready"
    /\ resourcePaths' = ExtractResourcePathsOf(resourceDoc)
    /\ resourcePc' = "extracted"
    /\ UNCHANGED <<resourceDoc, zipFiles, missingResources, notResourceVars>>

\* gatherMessages: findMissingResources(resourcePaths, zip)
FindMissingResources ==
    /\ resourcePc = "extracted"
    /\ ~resourcePaths.threw
    /\ missingResources' = FindMissingResourcesOf(resourcePaths.paths, zipFiles)
    /\ resourcePc' = "done"
    /\ UNCHANGED <<resourceDoc, zipFiles, resourcePaths, notResourceVars>>

(***************************************************************************)
(* The viewer: reading the manifest of an opened file.  A manifest is a    *)
(* parsed document, seen by extractMetadata as its odeProperty and         *)
(* odeResource records and by extractLegacyMetadata as its root element;   *)
(* a manifest that is not well-formed has no document.                     *)
(***************************************************************************)
ModernManifest(rootName, records) ==
    [wellFormed |-> TRUE, rootName |-> rootName, modern |-> records,
     legacy |-> [hasRoot |-> TRUE, version |-> NoAttr, class |-> NoAttr, children |-> << >>]]

LegacyManifest(root) ==
    [wellFormed |-> TRUE, rootName |-> "instance", modern |-> << >>, legacy |-> root]

MalformedManifest ==
    [wellFormed |-> FALSE, rootName |-> "parsererror", modern |-> << >>, legacy |-> NoLegacyDoc]

ViewerManifests ==
    {ModernManifest(rootName, records) :
        rootName \in {"ode", "ODE"}, records \in SeqsUpTo(MetadataRecords, 1)}
    \cup {LegacyManifest(root) :
            root \in [hasRoot : {TRUE},
                      version : {NoAttr, Attr("0.3")},
                      class : {NoAttr},
                      children : {<< >>} \cup
                          {<<Element("dictionary", NoAttr, NoAttr, "", children)>> :
                              children \in SeqsUpTo(EntryElements, MaxViewerEntries)}]}
    \cup {MalformedManifest}

\* zip.file(name) of a zip with these entries: the entry, if any
NoFile == << >>
ViewerZips ==
    [contentXml : {NoFile} \cup {<<m>> : m \in ViewerManifests},
     contentV3 : {NoFile} \cup {<<m>> : m \in ViewerManifests}]

ViewerFiles == [fileType : {"elpx", "elp"}, zip : ViewerZips]

\* the metadata of the handlers: of extractMetadata, or of
\* normalizeLegacyMetadata(extractLegacyMetadata(xmlDoc))
ViewerMetadata(manifestKind, manifest) ==
    IF manifestKind = "legacy"
    THEN [from |-> "legacy", modern |-> NoMetadata,
          legacy |-> NormalizeLegacyMetadataOf(ExtractLegacyMetadataOf(manifest.legacy))]
    ELSE [from |-> "modern", modern |-> ExtractMetadataOf(manifest.modern),
          legacy |-> NullMetadata]

NoViewerMetadata == [from |-> "none", modern |-> NoMetadata, legacy |-> NullMetadata]

InfoError(message) ==
    [status |-> "error", error |-> message, fileType |-> "none",
     manifestKind |-> "none", metadata |-> NoViewerMetadata]

InfoReady(fileType, manifestKind, metadata) ==
    [status |-> "ready", error |-> "", fileType |-> fileType,
     manifestKind |-> manifestKind, metadata |-> metadata]

InfoLoading ==
    [status |-> "loading", error |-> "", fileType |-> "none",
     manifestKind |-> "none", metadata |-> NoViewerMetadata]

\* the manifest steps that handleElpxFile and handleElpFile share: the
\* manifest file, its kind, its document and the metadata
ReadManifest(file, missingMessage) ==
    LET zip == file.zip
        manifestFile == IF zip.contentXml # NoFile THEN zip.contentXml ELSE zip.contentV3
        manifestKind == IF zip.contentXml # NoFile THEN "modern" ELSE "legacy"
    IN  IF manifestFile = NoFile THEN InfoError(missingMessage)
        ELSE IF ~manifestFile[1].wellFormed
             THEN InfoError("The XML document is not well-formed.")
             ELSE InfoReady(file.fileType, manifestKind,
                            ViewerMetadata(manifestKind, manifestFile[1]))

HandleElpxFile ==
    /\ infoPanel = InfoLoading
    /\ viewerFile.fileType = "elpx"
    /\ infoPanel' = ReadManifest(viewerFile, "Missing content.xml in the ELPX archive.")
    /\ UNCHANGED <<viewerFile, notViewerVars>>

HandleElpFile ==
    /\ infoPanel = InfoLoading
    /\ viewerFile.fileType = "elp"
    /\ infoPanel' = ReadManifest(viewerFile, "Unable to find content.xml in the ELP archive.")
    /\ UNCHANGED <<viewerFile, notViewerVars>>

(***************************************************************************)
(* parseModernPages on the raw fields.  An odeNavStructure element has,    *)
(* for each field name, the text content of the first element with that    *)
(* name inside it, if there is one.                                        *)
(***************************************************************************)
RawNavStructures ==
    [odePageId : {NoNode, Node(<<" ">>), Node(<<"a">>)},
     pageName : {NoNode, Node(<<" ">>), Node(<<" ", "T">>)},
     odeNavStructureSyncOrder :
         {NoNode, Node(<<" ">>), Node(<<"x">>), Node(<<"2">>), Node(<<"2", "x">>),
          Node(<<"-", "1">>)},
     odeNavStructureOrder : {NoNode, Node(<<" ", "5">>)}]

RawNavigationNodes == SeqsUpTo(RawNavStructures, MaxNavNodes)

\* getFirstText(node, tagNames): the trimmed text of the first of the named
\* fields that has a non-blank one
RECURSIVE GetFirstText(_, _, _)
GetFirstText(node, tagNames, index) ==
    IF index > Len(tagNames) THEN << >>
    ELSE LET match == node[tagNames[index]]
             text == IF match # NoNode /\ match[1] # << >> THEN Trim(match[1]) ELSE << >>
         IN  IF text # << >> THEN text ELSE GetFirstText(node, tagNames, index + 1)

\* the texts parseModernPages reads from a navNode
ReadNavStructure(navNode) ==
    [odePageId |-> GetFirstText(navNode, <<"odePageId">>, 1),
     pageName |-> GetFirstText(navNode, <<"pageName">>, 1),
     parent |-> << >>,
     order |-> GetFirstText(navNode,
                            <<"odeNavStructureSyncOrder", "odeNavStructureOrder">>, 1),
     htmlView |-> << >>]

ParseModernPagesCall ==
    /\ pagesPc = "ready"
    /\ parsedPages' =
           ParseModernPages([rootName |-> "ode",
                             odeNavStructure |->
                                 [i \in 1..Len(navigationNodes) |->
                                     ReadNavStructure(navigationNodes[i])]])
    /\ pagesPc' = "done"
    /\ UNCHANGED <<navigationNodes, notPagesVars>>

(***************************************************************************)
(* generateElpViewData on documents of any dialect.  A document is null,   *)
(* or has no documentElement, or has a root element with its local name,   *)
(* its odeNavStructure elements (read by parseModernPages) and its         *)
(* attributes and child elements (read by extractLegacyMetadata).  The     *)
(* strings of a legacy manifest are the ones of LegacyStrings; the texts   *)
(* of a page record are sequences, as in the page-tree builder, and a      *)
(* legacy string is one atom of such a text.                               *)
(***************************************************************************)
LegacyStrings == {"", " ", "p", "T", "3", "h"}

\* String.prototype.trim on the strings of LegacyStrings, as a text
TrimString(s) == IF s \in {"", " "} THEN << >> ELSE <<s>>

\* a property of a tagged value: <<value>>, or << >> when undefined
Get(node, key) ==
    IF node.type = "object" /\ key \in DOMAIN node.value
    THEN <<node.value[key]>>
    ELSE << >>

\* a || b || ... over the properties keys of entry: the first truthy one
RECURSIVE FirstTruthy(_, _, _)
FirstTruthy(entry, keys, k) ==
    IF k > Len(keys) THEN << >>
    ELSE IF Get(entry, keys[k]) # << >> /\ Truthy(Get(entry, keys[k])[1])
         THEN Get(entry, keys[k])
         ELSE FirstTruthy(entry, keys, k + 1)

\* trimText(value) of an optional tagged value; String(value) of an object
\* is "[object Object]"
TrimTextOf(value) ==
    IF value = << >> THEN << >>
    ELSE IF value[1].type = "string" THEN TrimString(value[1].value)
    ELSE <<"[object Object]">>

\* coerceNumber(value, fallback) of an optional tagged value
CoerceLegacyNumber(value, fallback) ==
    IF value = << >> THEN fallback
    ELSE IF value[1].type # "string" THEN fallback
    ELSE IF value[1].value = "" THEN fallback
    ELSE CoerceNumber(<<value[1].value>>, fallback)

\* ensureArray(value) of an optional tagged value
EnsureArray(value) ==
    IF value = << >> THEN << >>
    ELSE IF ~Truthy(value[1]) THEN << >>
    ELSE IF value[1].type = "array" THEN value[1].value
    ELSE <<value[1]>>

\* snippets.join('\n\n'): the texts, with the separator between them
RECURSIVE JoinSnippets(_)
JoinSnippets(snippets) ==
    IF snippets = << >> THEN << >>
    ELSE IF Len(snippets) = 1 THEN snippets[1]
    ELSE snippets[1] \o <<"\n\n">> \o JoinSnippets(Tail(snippets))

ContentKeys == <<"_content", "_body", "_text", "_html">>

\* the contentKeys.forEach of extractHtmlFromLegacyNode, from key k on
RECURSIVE ContentSnippets(_, _)
ContentSnippets(node, k) ==
    IF k > Len(ContentKeys) THEN << >>
    ELSE LET value == Get(node, ContentKeys[k])
             kept == IF /\ value # << >>
                        /\ value[1].type = "string"
                        /\ TrimString(value[1].value) # << >>
                     THEN <<TrimString(value[1].value)>>
                     ELSE << >>
         IN  kept \o ContentSnippets(node, k + 1)

\* extractHtmlFromLegacyNode(node)
ExtractHtmlFromLegacyNode(node) ==
    IF ~Truthy(node) \/ node.type = "string" THEN << >>
    ELSE JoinSnippets(ContentSnippets(node, 1))

\* idevices.map(extractHtmlFromLegacyNode) without the filter
RECURSIVE IdeviceHtmlUnfiltered(_, _)
IdeviceHtmlUnfiltered(idevices, k) ==
    IF k > Len(idevices) THEN << >>
    ELSE <<ExtractHtmlFromLegacyNode(idevices[k])>> \o IdeviceHtmlUnfiltered(idevices, k + 1)

\* idevices.map(extractHtmlFromLegacyNode).filter(snippet => snippet)
RECURSIVE IdeviceHtml(_, _)
IdeviceHtml(idevices, k) ==
    IF k > Len(idevices) THEN << >>
    ELSE (IF ExtractHtmlFromLegacyNode(idevices[k]) # << >>
          THEN <<ExtractHtmlFromLegacyNode(idevices[k])>>
          ELSE << >>) \o IdeviceHtml(idevices, k + 1)

\* parseLegacyChildren(children, accumulator, parentId, orderBase): the
\* accumulator after the call.  ParseLegacyEntries is its list.forEach, from
\* position k on.
RECURSIVE ParseLegacyChildren(_, _, _, _)
RECURSIVE ParseLegacyEntries(_, _, _, _, _)
ParseLegacyEntries(list, k, accumulator, parentId, orderBase) ==
    IF k > Len(list) THEN accumulator
    ELSE LET entry == list[k]
             index == k - 1
             id == TrimTextOf(FirstTruthy(entry, <<"_id", "id", "identifier", "uid">>, 1))
             safeId == IF id # << >> THEN id
                       ELSE (IF parentId # << >> THEN parentId ELSE <<"legacy">>)
                            \o <<"-", Len(accumulator) + 1>>
             named == FirstTruthy(entry, <<"_title", "title", "name">>, 1)
             title == IF named # << >> THEN TrimTextOf(named) ELSE safeId
             ideviceHtml == IdeviceHtml(EnsureArray(Get(entry, "_idevices")), 1)
             fallbackHtml == ExtractHtmlFromLegacyNode(entry)
             combinedHtml ==
                 JoinSnippets(IF ideviceHtml # << >> THEN ideviceHtml
                              ELSE IF fallbackHtml # << >> THEN <<fallbackHtml>>
                              ELSE << >>)
             page == [id |-> safeId,
                      title |-> IF title # << >> THEN title ELSE safeId,
                      htmlContent |-> combinedHtml,
                      parentId |-> IF parentId # << >> /\ parentId # safeId
                                   THEN parentId ELSE << >>,
                      order |-> CoerceLegacyNumber(Get(entry, "_order"), orderBase + index),
                      index |-> Len(accumulator)]
             pushed == Append(accumulator, page)
             children == Get(entry, "_children")
             after == IF children # << >> /\ Truthy(children[1])
                      THEN ParseLegacyChildren(children, pushed, safeId,
                                               orderBase + index + 1)
                      ELSE pushed
         IN  IF ~Truthy(entry) \/ entry.type = "string"
             THEN ParseLegacyEntries(list, k + 1, accumulator, parentId, orderBase)
             ELSE ParseLegacyEntries(list, k + 1, after, parentId, orderBase)

ParseLegacyChildren(children, accumulator, parentId, orderBase) ==
    ParseLegacyEntries(EnsureArray(children), 1, accumulator, parentId, orderBase)

\* parseLegacyPages(xmlDoc)
ParseLegacyPages(doc) ==
    LET legacy == ExtractLegacyMetadataOf(doc)
    IN  IF legacy.isNull THEN << >>
        ELSE ParseLegacyChildren(Get(Obj(legacy.properties), "_children"), << >>, << >>, 0)

\* what generateElpViewData returns: the roots array and the node objects it
\* refers to, or that it threw
Returns(heap, roots) == [threw |-> FALSE, heap |-> heap, roots |-> roots]
TypeError == [threw |-> TRUE, heap |-> << >>, roots |-> << >>]

\* generateElpViewData without its first guard: xmlDoc.documentElement of
\* null, and localName of a missing documentElement, throw
GenerateUnguarded(doc) ==
    IF doc.isNull \/ ~doc.hasRoot THEN TypeError
    ELSE LET flat == IF LowerCase(doc.rootName) = "ode"
                     THEN ParseModernPages(doc)
                     ELSE ParseLegacyPages(doc)
             built == BuildHierarchy(flat)
         IN  IF Len(flat) = 0 THEN Returns(<< >>, << >>)
             ELSE IF built.threw THEN TypeError
             ELSE Returns(built.heap, built.roots)

\* generateElpViewData(xmlDoc)
GenerateElpViewDataOf(doc) ==
    IF doc.isNull \/ ~doc.hasRoot THEN Returns(<< >>, << >>)
    ELSE LET flat == IF LowerCase(doc.rootName) = "ode"
                     THEN ParseModernPages(doc)
                     ELSE ParseLegacyPages(doc)
             built == BuildHierarchy(flat)
         IN  IF Len(flat) = 0 THEN Returns(<< >>, << >>)
             ELSE [threw |-> built.threw, heap |-> built.heap, roots |-> built.roots]

(***************************************************************************)
(* The documents handed to generateElpViewData.                            *)
(***************************************************************************)
Document(isNull, hasRoot, rootName, odeNavStructure, children) ==
    [isNull |-> isNull, hasRoot |-> hasRoot, rootName |-> rootName,
     odeNavStructure |-> odeNavStructure,
     version |-> NoAttr, class |-> NoAttr, children |-> children]

NullDocument == Document(TRUE, FALSE, "", << >>, << >>)
RootlessDocument == Document(FALSE, FALSE, "", << >>, << >>)

ModernDocuments ==
    {Document(FALSE, TRUE, rootName, nav, << >>) :
        rootName \in {"ode", "ODE"}, nav \in SeqsUpTo(NavStructures, MaxModernPages)}

\* <string role="key" value=key/> followed by the value, when there is one
KeyValue(key, value) ==
    IF value = << >> THEN << >> ELSE <<KeyMarker(key), value[1]>>

Dictionary(children) == Element("dictionary", NoAttr, NoAttr, "", children)
Instance(children) == Element("instance", NoAttr, NoAttr, "", <<Dictionary(children)>>)
List(children) == Element("list", NoAttr, NoAttr, "", children)
OptionalUnicodes(S) == {<< >>} \cup {<<Unicode(s)>> : s \in S}

\* a page entry without sub-pages
LeafEntries ==
    {Instance(KeyValue("_id", id) \o KeyValue("_order", order) \o KeyValue("_content", content)) :
        id \in OptionalUnicodes({"p", " "}),
        order \in OptionalUnicodes({"3"}),
        content \in OptionalUnicodes({"h"})}

\* a page entry with one sub-page
ParentEntries ==
    {Instance(KeyValue("_id", id) \o KeyValue("_title", <<Unicode("T")>>)
              \o KeyValue("_children", <<List(<<leaf>>)>>)) :
        id \in OptionalUnicodes({"p"}), leaf \in LeafEntries}

\* the elements of a _children list: page entries and plain strings
ListedElements == LeafEntries \cup ParentEntries \cup {Unicode("p")}

\* page entries without fields of their own: a leaf, a page with two
\* sub-pages, and a page with a sub-page that has a sub-page
PlainLeaf == Instance(<< >>)
PlainParent(entries) == Instance(KeyValue("_children", <<List(entries)>>))
DeepEntries ==
    {PlainLeaf, PlainParent(<<PlainLeaf, PlainLeaf>>),
     PlainParent(<<PlainParent(<<PlainLeaf>>)>>)}

\* the iDevices of a page entry: with content, with blank content, with two
\* content fields
Devices ==
    {Instance(KeyValue("_content", <<Unicode("p")>>)),
     Instance(KeyValue("_content", <<Unicode(" ")>>)),
     Instance(KeyValue("_body", <<Unicode("T")>>) \o KeyValue("_html", <<Unicode("p")>>))}

\* the values of _idevices: a list of iDevices, or one iDevice
IdevicesValues ==
    {<<List(devices)>> : devices \in SeqsUpTo(Devices, MaxDevices) \ {<< >>}}
    \cup {<<device>> : device \in Devices}

\* a page entry with iDevices, with or without content of its own
DeviceEntries ==
    {Instance(KeyValue("_content", content) \o KeyValue("_idevices", idevices)) :
        content \in OptionalUnicodes({"h"}), idevices \in IdevicesValues}

\* the values the _children key of the top dictionary may have: a list of
\* entries, a single entry, a string, or none (no _children key)
ChildrenValues ==
    {<< >>, <<Unicode("")>>, <<Unicode("p")>>}
    \cup {<<entry>> : entry \in LeafEntries \cup DeviceEntries}
    \cup {<<List(entries)>> : entries \in SeqsUpTo(ListedElements, MaxLegacyEntries)}
    \cup {<<List(entries)>> : entries \in SeqsUpTo(DeepEntries, MaxLegacyEntries)}

LegacyDocuments ==
    {Document(FALSE, TRUE, "instance", << >>, << >>)}
    \cup {Document(FALSE, TRUE, "instance", << >>,
                   <<Dictionary(KeyValue("_title", title) \o KeyValue("_children", children))>>) :
              title \in OptionalUnicodes({"T"}), children \in ChildrenValues}

Documents ==
    {NullDocument, RootlessDocument} \cup ModernDocuments \cup LegacyDocuments

NotGenerated == [threw |-> FALSE, heap |-> << >>, roots |-> <<0>>]

GenerateElpViewDataCall ==
    /\ dialectPc = "ready"
    /\ anyViewData' = GenerateElpViewDataOf(anyDoc)
    /\ dialectPc' = "done"
    /\ UNCHANGED <<anyDoc, notDialectVars>>

(***************************************************************************)
(* The publish modal, for a signed-in account and existing repositories.   *)
(* modal holds the fields of state and ui that the form handlers read and  *)
(* write, under the names of the code (overwriteChecked is                 *)
(* ui.overwriteCheckbox.checked, overwriteHidden the d-none class of       *)
(* ui.overwriteGroup, submitDisabled is ui.submitButton.disabled), and the *)
(* requests to GitHub whose answer has not arrived.  Every request is      *)
(* answered; answers arrive in any order.                                  *)
(***************************************************************************)
Repos == {"r1", "r2"}
BranchNames == {"gh-pages", "main"}
NoRepo == "none"
BranchStatuses == {"absent", "empty", "populated"}

\* what a request is answered with
BranchesOf(hub, repo) == {b \in BranchNames : hub[repo][b] # "absent"}
HasFiles(hub, repo, branch) == hub[repo][branch] = "populated"

LoadBranches(repo) ==
    [kind |-> "loadBranches", repo |-> repo, branch |-> "", origin |-> "handleRepoChange"]
BranchHasFiles(repo, branch, origin) ==
    [kind |-> "branchHasFiles", repo |-> repo, branch |-> branch, origin |-> origin]

\* showBranchMessage
ShowBranchMessage(form) ==
    IF form.branchHasContent
    THEN [form EXCEPT !.overwriteHidden = FALSE]
    ELSE [form EXCEPT !.overwriteHidden = TRUE, !.overwriteChecked = FALSE]

\* validateForm
ValidateForm(form) ==
    LET valid == /\ form.selectedRepo # NoRepo
                 /\ form.selectedBranch # ""
                 /\ ~(form.branchHasContent /\ ~form.overwriteChecked)
                 /\ ~form.isPublishing
    IN  [form EXCEPT !.submitDisabled = ~valid]

\* handleBranchChange with the value of the branch select
HandleBranchChangeOf(form, branch) ==
    LET chosen == [form EXCEPT !.selectedBranch = branch,
                               !.branchExists = branch \in form.branchList]
    IN  IF chosen.selectedRepo = NoRepo \/ branch = "" \/ ~chosen.branchExists
        THEN ValidateForm(ShowBranchMessage([chosen EXCEPT !.branchHasContent = FALSE]))
        ELSE [chosen EXCEPT !.requests =
                  @ \cup {BranchHasFiles(chosen.selectedRepo, branch, "handleBranchChange")}]

\* updateBranchSelectOptions: the options are rebuilt and change is triggered
UpdateBranchSelectOptions(form) ==
    HandleBranchChangeOf(form,
        IF form.selectedBranch = "" THEN "gh-pages" ELSE form.selectedBranch)

\* handleRepoChange up to its first await
HandleRepoChangeOf(form, repo) ==
    LET cleared == [form EXCEPT !.branchList = {}, !.branchExists = FALSE,
                                !.branchHasContent = FALSE]
        selected == ValidateForm([cleared EXCEPT !.selectedRepo = repo])
        reset == [HandleBranchChangeOf(selected, "gh-pages") EXCEPT
                      !.selectedBranch = "gh-pages", !.branchExists = FALSE,
                      !.branchHasContent = FALSE]
    IN  IF repo = NoRepo THEN ShowBranchMessage(reset)
        ELSE [selected EXCEPT !.requests = @ \cup {LoadBranches(repo)}]

\* the user picks a repository, or clears the repository select
SelectRepository(repo) ==
    /\ ~modal.isPublishing
    /\ selections < MaxSelections
    /\ modal' = HandleRepoChangeOf(modal, repo)
    /\ selections' = selections + 1
    /\ UNCHANGED <<github, submission, published, notPublishVars>>

\* the user picks or types a branch
SelectBranch(branch) ==
    /\ ~modal.isPublishing
    /\ selections < MaxSelections
    /\ modal' = HandleBranchChangeOf(modal, branch)
    /\ selections' = selections + 1
    /\ UNCHANGED <<github, submission, published, notPublishVars>>

\* handleRepoChange from the answer of loadBranches to its next await or end
LoadBranchesResolved(request) ==
    /\ request \in modal.requests
    /\ request.kind = "loadBranches"
    /\ LET arrived == [modal EXCEPT !.requests = @ \ {request},
                                    !.branchList = BranchesOf(github, request.repo)]
           updated == UpdateBranchSelectOptions(arrived)
           exists == updated.selectedBranch \in updated.branchList
           resumed == [updated EXCEPT !.branchExists = exists]
       IN  modal' =
               IF exists
               THEN [resumed EXCEPT !.requests =
                        @ \cup {BranchHasFiles(request.repo, resumed.selectedBranch,
                                               "handleRepoChange")}]
               ELSE ValidateForm(ShowBranchMessage(
                        [resumed EXCEPT !.branchHasContent = FALSE]))
    /\ UNCHANGED <<github, submission, published, selections, notPublishVars>>

\* handleRepoChange from the answer of its branchHasFiles to its end
RepoCheckResolved(request) ==
    /\ request \in modal.requests
    /\ request.kind = "branchHasFiles"
    /\ request.origin = "handleRepoChange"
    /\ modal' = ValidateForm(ShowBranchMessage(
                    [modal EXCEPT !.requests = @ \ {request},
                                  !.branchHasContent =
                                      HasFiles(github, request.repo, request.branch)]))
    /\ UNCHANGED <<github, submission, published, selections, notPublishVars>>

\* the then callback of handleBranchChange
BranchCheckResolved(request) ==
    /\ request \in modal.requests
    /\ request.kind = "branchHasFiles"
    /\ request.origin = "handleBranchChange"
    /\ modal' = ValidateForm(ShowBranchMessage(
                    [modal EXCEPT !.requests = @ \ {request},
                                  !.branchHasContent =
                                      HasFiles(github, request.repo, request.branch)]))
    /\ UNCHANGED <<github, submission, published, selections, notPublishVars>>

\* the user toggles the overwrite checkbox: handleOverwriteChange
HandleOverwriteChange ==
    /\ ~modal.isPublishing
    /\ ~modal.overwriteHidden
    /\ modal' = ValidateForm([modal EXCEPT !.overwriteChecked = ~@])
    /\ UNCHANGED <<github, submission, published, selections, notPublishVars>>

NoSubmission == [running |-> FALSE, repo |-> NoRepo, branch |-> "",
                 overwrite |-> FALSE, populated |-> FALSE]
NotPublished == [called |-> FALSE, repo |-> NoRepo, branch |-> "", force |-> FALSE,
                 overwrite |-> FALSE, populated |-> FALSE]

\* the click on Publish: handleSubmit up to its first await.  It remembers
\* whether the overwrite checkbox was checked and whether the branch had
\* files at that moment.
HandleSubmit ==
    /\ ~modal.submitDisabled
    /\ modal.selectedRepo # NoRepo
    /\ modal.selectedBranch # ""
    /\ submission' = [running |-> TRUE, repo |-> modal.selectedRepo,
                      branch |-> modal.selectedBranch,
                      overwrite |-> modal.overwriteChecked,
                      populated |-> HasFiles(github, modal.selectedRepo,
                                             modal.selectedBranch)]
    /\ modal' = [modal EXCEPT !.isPublishing = TRUE, !.submitDisabled = TRUE]
    /\ UNCHANGED <<github, published, selections, notPublishVars>>

\* the rest of handleSubmit: ensureBranch, branchHasFiles, publishToGitHub and
\* handleSuccess.  A branch that ensureBranch creates starts from the head of
\* the default branch, with or without files.
PublishToGitHub ==
    /\ submission.running
    /\ \E hasFiles \in IF github[submission.repo][submission.branch] = "absent"
                       THEN BOOLEAN
                       ELSE {HasFiles(github, submission.repo, submission.branch)} :
          LET listed == IF submission.branch \in modal.branchList THEN modal
                        ELSE UpdateBranchSelectOptions(
                                 [modal EXCEPT !.branchList = @ \cup {submission.branch}])
          IN  /\ published' = [called |-> TRUE, repo |-> submission.repo,
                               branch |-> submission.branch, force |-> hasFiles,
                               overwrite |-> submission.overwrite,
                               populated |-> submission.populated]
              /\ modal' = [listed EXCEPT !.branchHasContent = hasFiles,
                                         !.isPublishing = FALSE,
                                         !.submitDisabled = TRUE]
    /\ github' = [github EXCEPT ![submission.repo][submission.branch] = "populated"]
    /\ submission' = NoSubmission
    /\ UNCHANGED <<selections, notPublishVars>>

\* the modal after resetModal, with an account signed in
ClosedModal ==
    [selectedRepo |-> NoRepo, selectedBranch |-> "gh-pages", branchList |-> {},
     branchExists |-> FALSE, branchHasContent |-> FALSE, isPublishing |-> FALSE,
     overwriteChecked |-> FALSE, overwriteHidden |-> TRUE, submitDisabled |-> TRUE,
     requests |-> {}]

(***************************************************************************)
(* parsePreviewRequest of the service worker.  A string is the sequence of *)
(* its pieces: the piece "/" for every slash, and one piece for every      *)
(* maximal run of other characters (a name).  No two names are adjacent,   *)
(* so prefix tests, slices, splits and joins on the pieces are the ones on *)
(* the characters.                                                         *)
(***************************************************************************)
Names == {"app", "preview", "s1", "x"}
SegmentTexts == {<< >>} \cup {<<name>> : name \in Names}

\* array.join('/') on strings
RECURSIVE JoinSlash(_)
JoinSlash(strings) ==
    IF strings = << >> THEN << >>
    ELSE IF Len(strings) = 1 THEN strings[1]
    ELSE strings[1] \o <<"/">> \o JoinSlash(Tail(strings))

\* string.split('/')
RECURSIVE SplitSlash(_)
SplitSlash(string) ==
    IF \A i \in DOMAIN string : string[i] # "/" THEN <<string>>
    ELSE LET first == CHOOSE i \in DOMAIN string :
                          /\ string[i] = "/"
                          /\ \A j \in 1..(i - 1) : string[j] # "/"
         IN  <<SubSeq(string, 1, first - 1)>>
             \o SplitSlash(SubSeq(string, first + 1, Len(string)))

\* string.startsWith(prefix), string.endsWith('/') and string.slice(start)
StartsWith(string, prefix) ==
    Len(prefix) <= Len(string) /\ SubSeq(string, 1, Len(prefix)) = prefix
EndsWithSlash(string) == string # << >> /\ string[Len(string)] = "/"
Slice(string, start) == SubSeq(string, start + 1, Len(string))

\* the URLs of the model: a pathname is "/" followed by segments joined by "/"
Pathnames == {<<"/">> \o JoinSlash(segments) : segments \in SeqsUpTo(SegmentTexts, MaxSegments)}
Urls == [pathname : Pathnames, origin : {"https://example.com"}]
BasePaths == {<< >>, <<"/">>, <<"/", "app">>, <<"/", "app", "/">>}

NullRequest == [isNull |-> TRUE, sessionId |-> << >>, path |-> << >>, origin |-> ""]
PreviewRequest(sessionId, path, origin) ==
    [isNull |-> FALSE, sessionId |-> sessionId, path |-> path, origin |-> origin]

\* the base path taken as it is given
GivenBase(basePath) == basePath

\* normalizedBase
NormalizedBase(basePath) ==
    IF EndsWithSlash(basePath) THEN basePath ELSE basePath \o <<"/">>

\* parsePreviewRequest(url, { basePath })
ParsePreviewRequest(url, basePath) ==
    LET relative == Slice(url.pathname, Len(NormalizedBase(basePath)))
        remainder == Slice(relative, Len(<<"preview", "/">>))
        parts == SplitSlash(remainder)
        sessionId == Head(parts)
        rest == Tail(parts)
        path == IF JoinSlash(rest) # << >> THEN JoinSlash(rest) ELSE <<"index.html">>
    IN  IF ~StartsWith(url.pathname, NormalizedBase(basePath)) THEN NullRequest
        ELSE IF ~StartsWith(relative, <<"preview", "/">>) THEN NullRequest
        ELSE IF sessionId = << >> \/ rest = << >> THEN NullRequest
        ELSE PreviewRequest(sessionId, path, url.origin)

NotParsedRequest == [isNull |-> FALSE, sessionId |-> << >>, path |-> << >>, origin |-> ""]

ParsePreviewRequestCall ==
    /\ requestPc = "ready"
    /\ parsedRequest' = ParsePreviewRequest(requestUrl, requestBasePath)
    /\ requestPc' = "done"
    /\ UNCHANGED <<requestUrl, requestBasePath, notRequestVars>>

(***************************************************************************)
(* Preview sessions.  The viewer registers the files of an opened archive  *)
(* with the service worker (register-session) and releases the session of  *)
(* the previous archive (invalidate-session); the service worker keeps the *)
(* sessions Map and answers the requests for preview URLs from it.  A file *)
(* of a register-session message has the properties the sender gave it: an *)
(* absent blob or buffer is the empty sequence.                            *)
(***************************************************************************)
SESSION_TTL == 1800000
TickMs == 900000

SessionIds == <<"s1", "s2", "s3", "s4">>
NoSession == "none"
ScopeBasePath == <<"/">>
ScopeOrigin == "https://example.com"

\* the files of an archive: content and MIME type by path
IndexHtml == [content |-> "<html>", mimeType |-> "text/html"]
Picture == [content |-> "png bytes", mimeType |-> "image/png"]
Archives ==
    { (<<"index.html">> :> IndexHtml),
      (<<"index.html">> :> IndexHtml) @@ (<<"x", "/", "x">> :> Picture) }
NoArchive == [path \in {} |-> IndexHtml]

NoBlob == << >>
\* sessionFiles of handleElpxFile: { path, mimeType, lastModified, buffer }
SessionFiles(fileMap) ==
    {[path |-> path, mimeType |-> fileMap[path].mimeType,
      blob |-> NoBlob, buffer |-> <<fileMap[path].content>>] : path \in DOMAIN fileMap}

\* the files of the register-session message of the earlier viewer:
\* { sessionId, path, mimeType, lastModified, blob }
BlobFiles(fileMap) ==
    {[path |-> path, mimeType |-> fileMap[path].mimeType,
      blob |-> <<fileMap[path].content>>, buffer |-> NoBlob] : path \in DOMAIN fileMap}

RegisterSession(sessionId, files, replyPort) ==
    [type |-> "register-session", sessionId |-> sessionId, files |-> files,
     replyPort |-> replyPort]
InvalidateSession(sessionId) ==
    [type |-> "invalidate-session", sessionId |-> sessionId, files |-> {},
     replyPort |-> FALSE]
CleanupSessions ==
    [type |-> "cleanup-sessions", sessionId |-> NoSession, files |-> {},
     replyPort |-> FALSE]

\* releaseCurrentSession: the message it posts, if any
ReleaseMessages ==
    IF currentSession # NoSession THEN <<InvalidateSession(currentSession)>> ELSE << >>

\* handleFile and handleElpxFile up to the await of the acknowledgement: the
\* current session is released and the files of the archive are sent
HandleFile(fileMap) ==
    /\ pendingSession = NoSession
    /\ opened < MaxArchives
    /\ LET sessionId == SessionIds[opened + 1]
       IN  /\ swMessages' = swMessages \o ReleaseMessages
                            \o <<RegisterSession(sessionId, SessionFiles(fileMap), TRUE)>>
           /\ archives' = [archives EXCEPT ![sessionId] = fileMap]
           /\ pendingSession' = sessionId
    /\ released' = released \cup ({currentSession} \ {NoSession})
    /\ currentSession' = NoSession
    /\ opened' = opened + 1
    /\ UNCHANGED <<replies, sessions, touched, now, response, notPreviewVars>>

\* the same step of the earlier viewer: the files carry blobs and the
\* message has no reply port
HandleFileWithBlobs(fileMap) ==
    /\ pendingSession = NoSession
    /\ opened < MaxArchives
    /\ LET sessionId == SessionIds[opened + 1]
       IN  /\ swMessages' = swMessages \o ReleaseMessages
                            \o <<RegisterSession(sessionId, BlobFiles(fileMap), FALSE)>>
           /\ archives' = [archives EXCEPT ![sessionId] = fileMap]
           /\ pendingSession' = sessionId
    /\ released' = released \cup ({currentSession} \ {NoSession})
    /\ currentSession' = NoSession
    /\ opened' = opened + 1
    /\ UNCHANGED <<replies, sessions, touched, now, response, notPreviewVars>>

\* handleElpxFile after the await: the acknowledgement arrived or the wait
\* timed out, and currentSession is set
SessionReady ==
    /\ pendingSession # NoSession
    /\ currentSession' = pendingSession
    /\ pendingSession' = NoSession
    /\ UNCHANGED <<archives, released, swMessages, replies, sessions, touched, now,
                   response, opened, notPreviewVars>>

\* the viewer asks for a cleanup (bootstrap)
PostCleanupSessions ==
    /\ Len(swMessages) < MaxMessages
    /\ swMessages' = Append(swMessages, CleanupSessions)
    /\ UNCHANGED <<archives, pendingSession, currentSession, released, replies, sessions,
                   touched, now, response, opened, notPreviewVars>>

\* cleanStaleSessions at time
CleanStaleSessions(map, time) ==
    [sessionId \in {id \in DOMAIN map : ~(time - map[id].updatedAt > SESSION_TTL)} |->
        map[sessionId]]

\* the files storeSession keeps
StoredFiles(files) == {file \in files : ~(file.path = << >> \/ file.blob = NoBlob)}

\* storeSession(sessionId, files) at time
StoreSession(map, sessionId, files, time) ==
    LET kept == StoredFiles(files)
        fileMap == [path \in {file.path : file \in kept} |->
                       LET file == CHOOSE f \in kept : f.path = path
                       IN  [blob |-> file.blob[1],
                            mimeType |-> IF file.mimeType # "" THEN file.mimeType
                                         ELSE "application/octet-stream"]]
        stored == [id \in DOMAIN map \cup {sessionId} |->
                      IF id = sessionId THEN [files |-> fileMap, updatedAt |-> time]
                      ELSE map[id]]
    IN  CleanStaleSessions(stored, time)

\* the message handler of the service worker, on the oldest message
OnMessage ==
    /\ swMessages # << >>
    /\ LET data == Head(swMessages)
       IN  CASE data.type = "register-session" ->
                   /\ sessions' = StoreSession(sessions, data.sessionId, data.files, now)
                   /\ replies' = IF data.replyPort THEN replies \cup {data.sessionId}
                                 ELSE replies
                   /\ touched' = [touched EXCEPT ![data.sessionId] = now]
             [] data.type = "cleanup-sessions" ->
                   /\ sessions' = CleanStaleSessions(sessions, now)
                   /\ UNCHANGED <<replies, touched>>
             [] data.type = "invalidate-session" ->
                   /\ sessions' = [id \in DOMAIN sessions \ {data.sessionId} |-> sessions[id]]
                   /\ UNCHANGED <<replies, touched>>
    /\ swMessages' = Tail(swMessages)
    /\ UNCHANGED <<archives, pendingSession, currentSession, released, now, response,
                   opened, notPreviewVars>>

\* the activate and periodicsync handlers
OnPeriodicSync ==
    /\ sessions' = CleanStaleSessions(sessions, now)
    /\ UNCHANGED <<archives, pendingSession, currentSession, released, swMessages, replies,
                   touched, now, response, opened, notPreviewVars>>

\* the preview URLs requested: every session, the paths of the archives, the
\* session root and a path no archive has; and a URL outside preview/
RequestPaths == {<< >>, <<"index.html">>, <<"x", "/", "x">>, <<"y">>}
PreviewUrl(sessionId, path) ==
    [pathname |-> ScopeBasePath \o <<"preview", "/", sessionId, "/">> \o path,
     origin |-> ScopeOrigin]
RequestUrls ==
    {PreviewUrl(SessionIds[i], path) : i \in 1..MaxArchives, path \in RequestPaths}
    \cup {[pathname |-> <<"/", "x">>, origin |-> ScopeOrigin]}

NoResponse ==
    [answered |-> FALSE, sessionId |-> NoSession, path |-> << >>, status |-> 0,
     body |-> "", contentType |-> "", ready |-> FALSE, released |-> FALSE, idleFor |-> 0]
Answer(parsed, status, body, contentType) ==
    [answered |-> TRUE, sessionId |-> parsed.sessionId[1], path |-> parsed.path,
     status |-> status, body |-> body, contentType |-> contentType,
     ready |-> parsed.sessionId[1] \in replies,
     released |-> parsed.sessionId[1] \in released,
     idleFor |-> now - touched[parsed.sessionId[1]]]

\* the fetch handler
OnFetch(url) ==
    /\ url.origin = ScopeOrigin
    /\ LET parsed == ParsePreviewRequest(url, ScopeBasePath)
           known == parsed.sessionId[1] \in DOMAIN sessions
           session == sessions[parsed.sessionId[1]]
           decoded == DecodeURIComponent(parsed.path)
           record == IF parsed.path \in DOMAIN session.files
                     THEN <<session.files[parsed.path]>>
                     ELSE IF ~decoded.threw /\ decoded.text \in DOMAIN session.files
                     THEN <<session.files[decoded.text]>>
                     ELSE << >>
       IN  IF parsed.isNull
           THEN /\ response' = NoResponse
                /\ UNCHANGED <<sessions, touched>>
           ELSE IF ~known
           THEN /\ response' = Answer(parsed, 404, "Not found", "text/plain")
                /\ UNCHANGED <<sessions, touched>>
           ELSE /\ sessions' = [sessions EXCEPT ![parsed.sessionId[1]].updatedAt = now]
                /\ touched' = [touched EXCEPT ![parsed.sessionId[1]] = now]
                /\ response' =
                       IF record # << >>
                       THEN Answer(parsed, 200, record[1].blob, record[1].mimeType)
                       ELSE IF parsed.path \notin DOMAIN session.files /\ decoded.threw
                       THEN Answer(parsed, 0, "network error", "")
                       ELSE Answer(parsed, 404, "Not found", "text/plain")
    /\ UNCHANGED <<archives, pendingSession, currentSession, released, swMessages, replies,
                   now, opened, notPreviewVars>>

\* time passes
Tick ==
    /\ now + TickMs <= MaxTicks * TickMs
    /\ now' = now + TickMs
    /\ UNCHANGED <<archives, pendingSession, currentSession, released, swMessages, replies,
                   sessions, touched, response, opened, notPreviewVars>>

NoSessions == [id \in {} |-> [files |-> NoArchive, updatedAt |-> 0]]

(***************************************************************************)
(* gatherMessages.  The parsed document is seen by checkRootElement as the *)
(* tag name of its root element (none for a document without               *)
(* documentElement), by checkNavStructures as whether it has an            *)
(* odeNavStructures element, by the page and structure checks as its       *)
(* records, and by extractResourcePaths as its htmlView and jsonProperties *)
(* nodes.  A message is its level and its text.                            *)
(***************************************************************************)
Message(level, text) == [level |-> level, text |-> text]
Gathered(list) == [threw |-> FALSE, list |-> list]
GatherThrew == [threw |-> TRUE, list |-> << >>]

\* checkRootElement
CheckRootElementOf(doc) ==
    IF doc.rootName = << >>
    THEN [status |-> "error", message |-> <<"Unable to read the XML root element.">>]
    ELSE IF LowerCase(doc.rootName[1]) # "ode"
    THEN [status |-> "error",
          message |-> <<"Expected the root element to be <ode>, found <",
                        doc.rootName[1], "> instead.">>]
    ELSE [status |-> "success", message |-> <<"The root element is <ode>.">>]

\* checkNavStructures
CheckNavStructuresOf(doc) ==
    IF ~doc.hasNavStructures
    THEN [status |-> "error", message |-> <<"The <odeNavStructures> element is missing.">>]
    ELSE [status |-> "success", message |-> <<"Navigation structures found.">>]

\* missingResources.slice(0, 5).join(', ')
FirstMissing(missing) ==
    Join([i \in 1..(IF Len(missing) > 5 THEN 5 ELSE Len(missing)) |-> missing[i]], ", ")

\* the message of the resources check
ResourceMessage(paths, missing) ==
    IF Len(missing) > 0
    THEN Message("warning",
             <<"Missing ">> \o DecimalText(Len(missing)) \o <<" referenced resource">>
             \o (IF Len(missing) = 1 THEN << >> ELSE <<"s">>)
             \o <<" (first: ">> \o FirstMissing(missing)
             \o (IF Len(missing) > 5 THEN <<", ...">> ELSE << >>) \o <<").">>)
    ELSE IF Len(paths) > 0
    THEN Message("info", <<"All ">> \o DecimalText(Len(paths))
                         \o <<" linked resources are present.">>)
    ELSE Message("info", <<"No linked resources were detected in the manifest.">>)

InfoOrError(result) == IF result.status = "success" THEN "info" ELSE "error"

\* gatherMessages(manifestKind, xmlDoc, zip)
GatherMessagesOf(manifestKind, doc, zip) ==
    LET rootResult == CheckRootElementOf(doc)
        navResult == CheckNavStructuresOf(doc)
        pagesResult == CheckPagePresenceOf(doc.records)
        structureResult == ValidateStructuralIntegrityOf(doc.records)
        resourcePathsOf == ExtractResourcePathsOf(doc.nodes)
        missingOf == FindMissingResourcesOf(resourcePathsOf.paths, zip)
        root == Message(InfoOrError(rootResult), rootResult.message)
        nav == Message(InfoOrError(navResult), navResult.message)
        page == Message(IF pagesResult.status = "success" THEN "info"
                        ELSE pagesResult.status, pagesResult.message)
        structure == Message(InfoOrError(structureResult), structureResult.message)
    IN  IF manifestKind = "legacy"
        THEN Gathered(<<Message("warning",
                 <<"Legacy manifest format detected. Structural validation checks were skipped.">>)>>)
        ELSE IF rootResult.status = "error" THEN Gathered(<<root>>)
        ELSE IF navResult.status = "error" THEN Gathered(<<root, nav>>)
        ELSE IF resourcePathsOf.threw THEN GatherThrew
        ELSE IF missingOf.threw THEN GatherThrew
        ELSE Gathered(<<root, nav, page, structure,
                        ResourceMessage(resourcePathsOf.paths, missingOf.paths)>>)

\* the documents handed to gatherMessages
GatherRoots == {<< >>, <<"ode">>, <<"ODE">>, <<"exe">>}
GatherRecords == {doc \in SeqsUpTo(StructureRecords, MaxGatherRecords) : WellNested(doc)}
GatherNodes == SeqsUpTo([tagName : {"htmlView"}, kind : {"markup"},
                         values : SeqsUpTo(ReferenceValues, 1)], MaxGatherNodes)
GatherDocs ==
    [rootName : GatherRoots, hasNavStructures : BOOLEAN,
     records : GatherRecords, nodes : GatherNodes]
GatherArgs == [manifestKind : {"modern", "legacy"}, doc : GatherDocs, zip : SUBSET ZipNames]
NoGatherArgs ==
    [manifestKind |-> "modern",
     doc |-> [rootName |-> << >>, hasNavStructures |-> FALSE, records |-> << >>,
              nodes |-> << >>],
     zip |-> {}]
NotGathered == [threw |-> FALSE, list |-> <<0>>]

GatherMessages ==
    /\ gatherPc = "ready"
    /\ messages' = GatherMessagesOf(gatherArgs.manifestKind, gatherArgs.doc, gatherArgs.zip)
    /\ gatherPc' = "done"
    /\ UNCHANGED <<gatherArgs, notDiagnosticsVars>>

(***************************************************************************)
(* Repeated calls of extractResourcePaths.  RESOURCE_ATTRIBUTE_REGEX has   *)
(* the g flag: exec searches from lastIndex, sets lastIndex to the end of  *)
(* the match it returns, and sets it to 0 when it returns null.  The text  *)
(* of a markup node is <img src="v"> for each of its values v, so a match  *)
(* is the value with the positions where its attribute starts and ends.    *)
(***************************************************************************)
CharLen(atom) ==
    CASE atom = "content" -> 7
      [] atom \in {"%25", "%20"} -> 3
      [] OTHER -> 1

RECURSIVE TextLen(_)
TextLen(t) == IF t = << >> THEN 0 ELSE CharLen(Head(t)) + TextLen(Tail(t))

RECURSIVE AttributeMatchesFrom(_, _, _)
AttributeMatchesFrom(values, k, offset) ==
    IF k > Len(values) THEN << >>
    ELSE (IF values[k] # << >>
          THEN <<[value |-> values[k], start |-> offset + 5,
                  end |-> offset + 11 + TextLen(values[k])]>>
          ELSE << >>)
         \o AttributeMatchesFrom(values, k + 1, offset + 12 + TextLen(values[k]))

AttributeMatches(node) ==
    IF node.kind = "markup" THEN AttributeMatchesFrom(node.values, 1, 0) ELSE << >>

\* the Set resourcePaths and the lastIndex of the shared regular expression
CallState(threw, paths, index) == [threw |-> threw, paths |-> paths, lastIndex |-> index]

\* while ((match = RESOURCE_ATTRIBUTE_REGEX.exec(text)) !== null), from the
\* k-th attribute of the text on
RECURSIVE Exec(_, _, _)
Exec(acc, matches, k) ==
    IF k > Len(matches) THEN CallState(FALSE, acc.paths, 0)
    ELSE IF matches[k].start < acc.lastIndex THEN Exec(acc, matches, k + 1)
    ELSE LET added == AddResourcePath(PathSet(acc.paths), matches[k].value)
         IN  IF added.threw THEN CallState(TRUE, acc.paths, matches[k].end)
             ELSE Exec(CallState(FALSE, added.paths, matches[k].end), matches, k + 1)

\* the body of jsonNodes.forEach
ExecJsonNode(acc, node) ==
    IF node.kind = "json"
    THEN LET collected == CollectPathsFromJson(PathSet(acc.paths), node.values, 1)
         IN  IF collected.threw
             THEN Exec(CallState(FALSE, collected.paths, acc.lastIndex),
                       AttributeMatches(node), 1)
             ELSE CallState(FALSE, collected.paths, acc.lastIndex)
    ELSE Exec(acc, AttributeMatches(node), 1)

RECURSIVE ExecHtmlNodes(_, _, _)
ExecHtmlNodes(acc, doc, k) ==
    IF acc.threw \/ k > Len(doc) THEN acc
    ELSE ExecHtmlNodes(IF doc[k].tagName = "htmlView"
                       THEN Exec(acc, AttributeMatches(doc[k]), 1)
                       ELSE acc, doc, k + 1)

RECURSIVE ExecJsonNodes(_, _, _)
ExecJsonNodes(acc, doc, k) ==
    IF acc.threw \/ k > Len(doc) THEN acc
    ELSE ExecJsonNodes(IF doc[k].tagName = "jsonProperties" THEN ExecJsonNode(acc, doc[k])
                       ELSE acc, doc, k + 1)

\* extractResourcePaths(xmlDoc) when RESOURCE_ATTRIBUTE_REGEX.lastIndex is index
ExtractResourcePathsFrom(doc, index) ==
    ExecJsonNodes(ExecHtmlNodes(CallState(FALSE, << >>, index), doc, 1), doc, 1)

CallValues ==
    {<<"content", "/">>, <<"content", "/", "%">>, <<".", "/", "content", "/", "%20", "x">>}
CallNodes ==
    [tagName : {"htmlView", "jsonProperties"},
     kind : {"markup", "json"},
     values : SeqsUpTo(CallValues, 1)]
CallDocs == SeqsUpTo(CallNodes, MaxCallNodes)
NotCalled == [threw |-> FALSE, paths |-> <<0>>]

\* one more call of extractResourcePaths, on any document
ExtractResourcePathsAgain(doc) ==
    /\ callCount < MaxCalls
    /\ \E outcome \in {ExtractResourcePathsFrom(doc, lastIndex)} :
          /\ callResult' = [threw |-> outcome.threw, paths |-> outcome.paths]
          /\ lastIndex' = outcome.lastIndex
    /\ callDoc' = doc
    /\ callCount' = callCount + 1
    /\ UNCHANGED notCallsVars

(***************************************************************************)
(* One publish run to an existing repository, and its cancellation.  run   *)
(* holds the await at which handleSubmit stands (pc), the fields           *)
(* isPublishing, publishCancelled and publishAbortController of state      *)
(* ("null", or "live" for a controller), whether the controller made by    *)
(* disableFormControls has been aborted, and the number of files uploaded. *)
(* A request is sent by fetch; signal tells whether the controller's       *)
(* signal was passed to fetch.  Files are uploaded with the contents API.  *)
(***************************************************************************)
RunInputs ==
    [branch : BranchNames, exists : BOOLEAN, hasFiles : BOOLEAN, files : 0..MaxFiles]
NoRunInput == [branch |-> "main", exists |-> FALSE, hasFiles |-> FALSE, files |-> 0]

IdleRun ==
    [pc |-> "idle", isPublishing |-> FALSE, publishCancelled |-> FALSE,
     publishAbortController |-> "null", aborted |-> FALSE, uploaded |-> 0]

NoRequest == << >>

\* fetch(url, {method, signal}) as githubRequest calls it: the signal is
\* state.publishAbortController?.signal, read when the request is made
GithubRequest(kind, method) ==
    [kind |-> kind, method |-> method, signal |-> run.publishAbortController = "live",
     afterCancel |-> userCancelled]

\* fetch(url, {headers}) as branchHasFiles calls it: no signal
PlainFetch(kind) ==
    [kind |-> kind, method |-> "GET", signal |-> FALSE, afterCancel |-> userCancelled]

\* the pending fetch was given the signal of a controller that has been
\* aborted: its promise rejects with an AbortError
Rejected == inFlight # NoRequest /\ inFlight[1].signal /\ run.aborted

Answered(pc) == run.pc = pc /\ inFlight # NoRequest /\ ~Rejected

\* what enableFormControls does to the fields of state
EnableFormControls(r) ==
    [r EXCEPT !.isPublishing = FALSE, !.publishAbortController = "null",
              !.publishCancelled = FALSE]

\* handleSubmit until its first await: disableFormControls, then ensureBranch
\* asks for the branch
HandleSubmitRun ==
    /\ run.pc = "idle"
    /\ run' = [run EXCEPT !.pc = "ensureBranch", !.isPublishing = TRUE,
                          !.publishAbortController = "live", !.publishCancelled = FALSE]
    /\ \E request \in {[kind |-> "branch", method |-> "GET", signal |-> TRUE,
                        afterCancel |-> FALSE]} :
          /\ inFlight' = <<request>>
          /\ sentRequests' = Append(sentRequests, request)
    /\ UNCHANGED <<runInput, userCancelled, notRunVars>>

\* the next request of the run
Continue(pc, request) ==
    /\ run' = [run EXCEPT !.pc = pc]
    /\ inFlight' = <<request>>
    /\ sentRequests' = Append(sentRequests, request)
    /\ UNCHANGED <<runInput, userCancelled, notRunVars>>

\* handleSubmit after ensureBranch: branchHasFiles
AskBranchHasFiles == Continue("branchHasFiles", PlainFetch("contents"))

\* ensureBranch: the branch exists
BranchFound ==
    /\ Answered("ensureBranch")
    /\ runInput.exists
    /\ AskBranchHasFiles

\* ensureBranch: 404 for the branch; the repository is asked for
BranchNotFound ==
    /\ Answered("ensureBranch")
    /\ ~runInput.exists
    /\ Continue("getRepo", GithubRequest("repo", "GET"))

\* ensureBranch: the head of the default branch is asked for
RepoRead ==
    /\ Answered("getRepo")
    /\ Continue("getRef", GithubRequest("ref", "GET"))

\* ensureBranch: the branch is created
RefRead ==
    /\ Answered("getRef")
    /\ Continue("createRef", GithubRequest("refs", "POST"))

RefCreated ==
    /\ Answered("createRef")
    /\ AskBranchHasFiles

\* branchHasFiles returned: handleSubmit awaits getFilesToPublish
ContentsRead ==
    /\ Answered("branchHasFiles")
    /\ run' = [run EXCEPT !.pc = "getFilesToPublish"]
    /\ inFlight' = NoRequest
    /\ UNCHANGED <<runInput, sentRequests, userCancelled, notRunVars>>

\* uploadWithContentsApi, at the file after the uploaded ones: with force
\* the existing file is read first
NextUpload ==
    IF runInput.hasFiles
    THEN Continue("getExisting", GithubRequest("contents", "GET"))
    ELSE Continue("putFile", GithubRequest("contents", "PUT"))

\* getFilesToPublish returned the files: publishToGitHub starts
FilesReady ==
    /\ run.pc = "getFilesToPublish"
    /\ runInput.files > 0
    /\ NextUpload

\* getFilesToPublish returned no file: the error goes to the catch of
\* handleSubmit, which hands it to handleError unless publishCancelled
NoFiles ==
    /\ run.pc = "getFilesToPublish"
    /\ runInput.files = 0
    /\ run' = IF run.publishCancelled THEN [run EXCEPT !.pc = "returned"]
              ELSE EnableFormControls([run EXCEPT !.pc = "handleError"])
    /\ UNCHANGED <<runInput, inFlight, sentRequests, userCancelled, notRunVars>>

ExistingRead ==
    /\ Answered("getExisting")
    /\ Continue("putFile", GithubRequest("contents", "PUT"))

\* a file is uploaded: the next file, then Pages for gh-pages, then
\* handleSuccess
FileUploaded ==
    /\ Answered("putFile")
    /\ IF run.uploaded + 1 < runInput.files
       THEN /\ run' = [run EXCEPT !.uploaded = @ + 1,
                                  !.pc = IF runInput.hasFiles THEN "getExisting" ELSE "putFile"]
            /\ \E request \in {GithubRequest("contents",
                                   IF runInput.hasFiles THEN "GET" ELSE "PUT")} :
                  /\ inFlight' = <<request>>
                  /\ sentRequests' = Append(sentRequests, request)
       ELSE IF runInput.branch = "gh-pages"
       THEN /\ run' = [run EXCEPT !.uploaded = @ + 1, !.pc = "enablePages"]
            /\ \E request \in {GithubRequest("pages", "POST")} :
                  /\ inFlight' = <<request>>
                  /\ sentRequests' = Append(sentRequests, request)
       ELSE /\ run' = EnableFormControls([run EXCEPT !.uploaded = @ + 1,
                                                     !.pc = "handleSuccess"])
            /\ inFlight' = NoRequest
            /\ UNCHANGED sentRequests
    /\ UNCHANGED <<runInput, userCancelled, notRunVars>>

PagesEnabled ==
    /\ Answered("enablePages")
    /\ run' = EnableFormControls([run EXCEPT !.pc = "handleSuccess"])
    /\ inFlight' = NoRequest
    /\ UNCHANGED <<runInput, sentRequests, userCancelled, notRunVars>>

\* the awaited fetch rejects with an AbortError: the catch of handleSubmit
\* returns
AbortErrorCaught ==
    /\ Rejected
    /\ run' = [run EXCEPT !.pc = "returned"]
    /\ inFlight' = NoRequest
    /\ UNCHANGED <<runInput, sentRequests, userCancelled, notRunVars>>

\* cancelPublishing, from the Cancel button or from closing the modal
CancelPublishing ==
    /\ run.isPublishing
    /\ run' = EnableFormControls([run EXCEPT !.publishCancelled = TRUE, !.aborted = TRUE])
    /\ userCancelled' = TRUE
    /\ UNCHANGED <<runInput, inFlight, sentRequests, notRunVars>>

(***************************************************************************)
(* Overlapping file loads.  Every file the user chooses starts a           *)
(* handleFile; the handlers run on one thread and interleave at their      *)
(* awaits.  A load stands before its start ("waiting"), at the awaits of   *)
(* reading the archive ("unzipping"), at the await of the acknowledgement  *)
(* of its register-session message ("registering"), or has ended ("done",  *)
(* or "failed" when an error reached the catch of handleFile).  The loads  *)
(* share currentSession; released holds the sessions for which             *)
(* invalidate-session was posted.                                          *)
(***************************************************************************)
LoadIds == 1..MaxLoads

\* what a file load leaves alone: the service worker and the other components
besideLoadVars ==
    <<archives, pendingSession, swMessages, replies, sessions, touched, now, response,
      treeVars, legacyVars, validatorVars, loaderVars, metadataVars, resourceVars,
      viewerVars, pagesVars, dialectVars, publishVars, requestVars, diagnosticsVars,
      callsVars, runVars>>

NotChosen == [pc |-> "waiting", sessionId |-> NoSession]

\* handleFile up to the first await of handleElpxFile: releaseCurrentSession
StartLoad(l) ==
    /\ loads[l].pc = "waiting"
    /\ released' = released \cup ({currentSession} \ {NoSession})
    /\ currentSession' = NoSession
    /\ loads' = [loads EXCEPT ![l].pc = "unzipping"]
    /\ UNCHANGED <<opened, besideLoadVars>>

\* the archive cannot be read, has no content.xml or no index.html
ArchiveRejected(l) ==
    /\ loads[l].pc = "unzipping"
    /\ loads' = [loads EXCEPT ![l].pc = "failed"]
    /\ UNCHANGED <<currentSession, released, opened, besideLoadVars>>

\* createSessionId, and registerPreviewSession posts register-session
RegisterPreviewSession(l) ==
    /\ loads[l].pc = "unzipping"
    /\ loads' = [loads EXCEPT ![l] = [pc |-> "registering",
                                      sessionId |-> SessionIds[opened + 1]]]
    /\ opened' = opened + 1
    /\ UNCHANGED <<currentSession, released, besideLoadVars>>

\* the acknowledgement arrived or the wait ended: currentSession is set
SessionRecorded(l) ==
    /\ loads[l].pc = "registering"
    /\ currentSession' = loads[l].sessionId
    /\ loads' = [loads EXCEPT ![l].pc = "done"]
    /\ UNCHANGED <<released, opened, besideLoadVars>>

\* gatherMessages throws before currentSession is set
DiagnosticsThrew(l) ==
    /\ loads[l].pc = "registering"
    /\ loads' = [loads EXCEPT ![l].pc = "failed"]
    /\ UNCHANGED <<currentSession, released, opened, besideLoadVars>>

(***************************************************************************)
(* The specifications: one per component.  Each draws the input of its     *)
(* component and leaves the other components idle.                         *)
(***************************************************************************)
TreeIdle ==
    /\ xmlDoc = [rootName |-> "none", odeNavStructure |-> << >>]
    /\ flatPages = << >>
    /\ pages = << >>
    /\ viewData = [threw |-> FALSE, roots |-> << >>]
    /\ treePc = "idle"

LegacyIdle ==
    /\ legacyDoc = NoLegacyDoc
    /\ legacyMetadata = NullMetadata
    /\ normalizedMetadata = NullMetadata
    /\ legacyPc = "idle"

ValidatorIdle ==
    /\ validatedDoc = << >>
    /\ pagePresence = NotRun
    /\ structuralIntegrity = NotRun

LoaderIdle ==
    /\ xmlString = [type |-> "undefined", tokens |-> << >>]
    /\ parseResult = NotParsed
    /\ loaderPc = "idle"

MetadataIdle ==
    /\ metadataDoc = << >>
    /\ modernMetadata = NoMetadata
    /\ metadataPc = "idle"

ResourceIdle ==
    /\ resourceDoc = << >>
    /\ zipFiles = {}
    /\ resourcePaths = PathSet(<< >>)
    /\ missingResources = PathSet(<< >>)
    /\ resourcePc = "idle"

ViewerIdle ==
    /\ viewerFile = [fileType |-> "none", zip |-> [contentXml |-> NoFile, contentV3 |-> NoFile]]
    /\ infoPanel = [status |-> "idle", error |-> "", fileType |-> "none",
                    manifestKind |-> "none", metadata |-> NoViewerMetadata]

PagesIdle ==
    /\ navigationNodes = << >>
    /\ parsedPages = << >>
    /\ pagesPc = "idle"

DialectIdle ==
    /\ anyDoc = NullDocument
    /\ anyViewData = NotGenerated
    /\ dialectPc = "idle"

PublishIdle ==
    /\ modal = ClosedModal
    /\ github = [repo \in Repos |-> [branch \in BranchNames |-> "absent"]]
    /\ submission = NoSubmission
    /\ published = NotPublished
    /\ selections = 0

RequestIdle ==
    /\ requestUrl = [pathname |-> <<"/">>, origin |-> ""]
    /\ requestBasePath = <<"/">>
    /\ parsedRequest = NotParsedRequest
    /\ requestPc = "idle"

PreviewIdle ==
    /\ archives = [i \in {} |-> NoArchive]
    /\ pendingSession = NoSession
    /\ currentSession = NoSession
    /\ released = {}
    /\ swMessages = << >>
    /\ replies = {}
    /\ sessions = NoSessions
    /\ touched = [i \in {} |-> 0]
    /\ now = 0
    /\ response = NoResponse
    /\ opened = 0

DiagnosticsIdle ==
    /\ gatherArgs = NoGatherArgs
    /\ messages = NotGathered
    /\ gatherPc = "idle"

CallsIdle ==
    /\ lastIndex = 0
    /\ callDoc = << >>
    /\ callResult = NotCalled
    /\ callCount = 0

RunIdle ==
    /\ runInput = NoRunInput
    /\ run = IdleRun
    /\ inFlight = NoRequest
    /\ sentRequests = << >>
    /\ userCancelled = FALSE

LoadsIdle == loads = [l \in {} |-> NotChosen]

InitTree ==
    /\ xmlDoc \in ModernDocs
    /\ flatPages = << >>
    /\ pages = << >>
    /\ viewData = [threw |-> FALSE, roots |-> << >>]
    /\ treePc = "ready"
    /\ LegacyIdle
    /\ ValidatorIdle
    /\ LoaderIdle
    /\ MetadataIdle
    /\ ResourceIdle
    /\ ViewerIdle
    /\ PagesIdle
    /\ DialectIdle
    /\ PublishIdle
    /\ RequestIdle
    /\ PreviewIdle
    /\ DiagnosticsIdle
    /\ CallsIdle
    /\ RunIdle
    /\ LoadsIdle

NextTree == GenerateElpViewData

SpecTree == InitTree /\ [][NextTree]_vars

InitLegacy ==
    /\ \/ /\ legacyDoc \in LegacyDocs
          /\ legacyMetadata = NullMetadata
          /\ legacyPc = "ready"
       \/ /\ legacyDoc = NoLegacyDoc
          /\ legacyMetadata \in ExtractedMetadata
          /\ legacyPc = "extracted"
    /\ normalizedMetadata = NullMetadata
    /\ TreeIdle
    /\ ValidatorIdle
    /\ LoaderIdle
    /\ MetadataIdle
    /\ ResourceIdle
    /\ ViewerIdle
    /\ PagesIdle
    /\ DialectIdle
    /\ PublishIdle
    /\ RequestIdle
    /\ PreviewIdle
    /\ DiagnosticsIdle
    /\ CallsIdle
    /\ RunIdle
    /\ LoadsIdle

NextLegacy == ExtractLegacyMetadata \/ NormalizeLegacyMetadata

SpecLegacy == InitLegacy /\ [][NextLegacy]_vars

InitValidator ==
    /\ validatedDoc \in StructureDocs
    /\ pagePresence = NotRun
    /\ structuralIntegrity = NotRun
    /\ TreeIdle
    /\ LegacyIdle
    /\ LoaderIdle
    /\ MetadataIdle
    /\ ResourceIdle
    /\ ViewerIdle
    /\ PagesIdle
    /\ DialectIdle
    /\ PublishIdle
    /\ RequestIdle
    /\ PreviewIdle
    /\ DiagnosticsIdle
    /\ CallsIdle
    /\ RunIdle
    /\ LoadsIdle

NextValidator == CheckPagePresence \/ ValidateStructuralIntegrity

SpecValidator == InitValidator /\ [][NextValidator]_vars

InitLoader ==
    /\ xmlString \in Payloads
    /\ parseResult = NotParsed
    /\ loaderPc = "ready"
    /\ TreeIdle
    /\ LegacyIdle
    /\ ValidatorIdle
    /\ MetadataIdle
    /\ ResourceIdle
    /\ ViewerIdle
    /\ PagesIdle
    /\ DialectIdle
    /\ PublishIdle
    /\ RequestIdle
    /\ PreviewIdle
    /\ DiagnosticsIdle
    /\ CallsIdle
    /\ RunIdle
    /\ LoadsIdle

NextLoader == ParseContentXml

SpecLoader == InitLoader /\ [][NextLoader]_vars

InitMetadata ==
    /\ metadataDoc \in MetadataDocs
    /\ modernMetadata = NoMetadata
    /\ metadataPc = "ready"
    /\ TreeIdle
    /\ LegacyIdle
    /\ ValidatorIdle
    /\ LoaderIdle
    /\ ResourceIdle
    /\ ViewerIdle
    /\ PagesIdle
    /\ DialectIdle
    /\ PublishIdle
    /\ RequestIdle
    /\ PreviewIdle
    /\ DiagnosticsIdle
    /\ CallsIdle
    /\ RunIdle
    /\ LoadsIdle

NextMetadata == ExtractMetadata

SpecMetadata == InitMetadata /\ [][NextMetadata]_vars

InitResource ==
    /\ resourceDoc \in ResourceDocs
    /\ zipFiles \in SUBSET ZipNames
    /\ resourcePaths = PathSet(<< >>)
    /\ missingResources = PathSet(<< >>)
    /\ resourcePc = "ready"
    /\ TreeIdle
    /\ LegacyIdle
    /\ ValidatorIdle
    /\ LoaderIdle
    /\ MetadataIdle
    /\ ViewerIdle
    /\ PagesIdle
    /\ DialectIdle
    /\ PublishIdle
    /\ RequestIdle
    /\ PreviewIdle
    /\ DiagnosticsIdle
    /\ CallsIdle
    /\ RunIdle
    /\ LoadsIdle

NextResource == ExtractResourcePaths \/ FindMissingResources

SpecResource == InitResource /\ [][NextResource]_vars

InitViewer ==
    /\ viewerFile \in ViewerFiles
    /\ infoPanel = InfoLoading
    /\ TreeIdle
    /\ LegacyIdle
    /\ ValidatorIdle
    /\ LoaderIdle
    /\ MetadataIdle
    /\ ResourceIdle
    /\ PagesIdle
    /\ DialectIdle
    /\ PublishIdle
    /\ RequestIdle
    /\ PreviewIdle
    /\ DiagnosticsIdle
    /\ CallsIdle
    /\ RunIdle
    /\ LoadsIdle

NextViewer == HandleElpxFile \/ HandleElpFile

SpecViewer == InitViewer /\ [][NextViewer]_vars

InitPages ==
    /\ navigationNodes \in RawNavigationNodes
    /\ parsedPages = << >>
    /\ pagesPc = "ready"
    /\ TreeIdle
    /\ LegacyIdle
    /\ ValidatorIdle
    /\ LoaderIdle
    /\ MetadataIdle
    /\ ResourceIdle
    /\ ViewerIdle
    /\ DialectIdle
    /\ PublishIdle
    /\ RequestIdle
    /\ PreviewIdle
    /\ DiagnosticsIdle
    /\ CallsIdle
    /\ RunIdle
    /\ LoadsIdle

NextPages == ParseModernPagesCall

SpecPages == InitPages /\ [][NextPages]_vars

InitDialect ==
    /\ anyDoc \in Documents
    /\ anyViewData = NotGenerated
    /\ dialectPc = "ready"
    /\ TreeIdle
    /\ LegacyIdle
    /\ ValidatorIdle
    /\ LoaderIdle
    /\ MetadataIdle
    /\ ResourceIdle
    /\ ViewerIdle
    /\ PagesIdle
    /\ PublishIdle
    /\ RequestIdle
    /\ PreviewIdle
    /\ DiagnosticsIdle
    /\ CallsIdle
    /\ RunIdle
    /\ LoadsIdle

NextDialect == GenerateElpViewDataCall

SpecDialect == InitDialect /\ [][NextDialect]_vars

InitPublish ==
    /\ modal = ClosedModal
    /\ github \in [Repos -> [BranchNames -> BranchStatuses]]
    /\ submission = NoSubmission
    /\ published = NotPublished
    /\ selections = 0
    /\ TreeIdle
    /\ LegacyIdle
    /\ ValidatorIdle
    /\ LoaderIdle
    /\ MetadataIdle
    /\ ResourceIdle
    /\ ViewerIdle
    /\ PagesIdle
    /\ DialectIdle
    /\ RequestIdle
    /\ PreviewIdle
    /\ DiagnosticsIdle
    /\ CallsIdle
    /\ RunIdle
    /\ LoadsIdle

NextPublish ==
    \/ \E repo \in Repos \cup {NoRepo} : SelectRepository(repo)
    \/ \E branch \in BranchNames : SelectBranch(branch)
    \/ \E request \in modal.requests : LoadBranchesResolved(request)
    \/ \E request \in modal.requests : RepoCheckResolved(request)
    \/ \E request \in modal.requests : BranchCheckResolved(request)
    \/ HandleOverwriteChange
    \/ HandleSubmit
    \/ PublishToGitHub

SpecPublish == InitPublish /\ [][NextPublish]_vars

InitRequest ==
    /\ requestUrl \in Urls
    /\ requestBasePath \in BasePaths
    /\ parsedRequest = NotParsedRequest
    /\ requestPc = "ready"
    /\ TreeIdle
    /\ LegacyIdle
    /\ ValidatorIdle
    /\ LoaderIdle
    /\ MetadataIdle
    /\ ResourceIdle
    /\ ViewerIdle
    /\ PagesIdle
    /\ DialectIdle
    /\ PublishIdle
    /\ PreviewIdle
    /\ DiagnosticsIdle
    /\ CallsIdle
    /\ RunIdle
    /\ LoadsIdle

NextRequest == ParsePreviewRequestCall

SpecRequest == InitRequest /\ [][NextRequest]_vars

InitPreview ==
    /\ archives = [id \in {SessionIds[i] : i \in 1..MaxArchives} |-> NoArchive]
    /\ pendingSession = NoSession
    /\ currentSession = NoSession
    /\ released = {}
    /\ swMessages = << >>
    /\ replies = {}
    /\ sessions = NoSessions
    /\ touched = [id \in {SessionIds[i] : i \in 1..MaxArchives} |-> 0]
    /\ now = 0
    /\ response = NoResponse
    /\ opened = 0
    /\ TreeIdle
    /\ LegacyIdle
    /\ ValidatorIdle
    /\ LoaderIdle
    /\ MetadataIdle
    /\ ResourceIdle
    /\ ViewerIdle
    /\ PagesIdle
    /\ DialectIdle
    /\ PublishIdle
    /\ RequestIdle
    /\ DiagnosticsIdle
    /\ CallsIdle
    /\ RunIdle
    /\ LoadsIdle

NextPreview ==
    \/ \E fileMap \in Archives : HandleFile(fileMap)
    \/ \E fileMap \in Archives : HandleFileWithBlobs(fileMap)
    \/ SessionReady
    \/ PostCleanupSessions
    \/ OnMessage
    \/ OnPeriodicSync
    \/ \E url \in RequestUrls : OnFetch(url)
    \/ Tick

SpecPreview == InitPreview /\ [][NextPreview]_vars

InitDiagnostics ==
    /\ gatherArgs \in GatherArgs
    /\ messages = NotGathered
    /\ gatherPc = "ready"
    /\ TreeIdle
    /\ LegacyIdle
    /\ ValidatorIdle
    /\ LoaderIdle
    /\ MetadataIdle
    /\ ResourceIdle
    /\ ViewerIdle
    /\ PagesIdle
    /\ DialectIdle
    /\ PublishIdle
    /\ RequestIdle
    /\ PreviewIdle
    /\ CallsIdle
    /\ RunIdle
    /\ LoadsIdle

NextDiagnostics == GatherMessages

SpecDiagnostics == InitDiagnostics /\ [][NextDiagnostics]_vars

\* the module has just been loaded: no call yet
InitCalls ==
    /\ lastIndex = 0
    /\ callDoc = << >>
    /\ callResult = NotCalled
    /\ callCount = 0
    /\ TreeIdle
    /\ LegacyIdle
    /\ ValidatorIdle
    /\ LoaderIdle
    /\ MetadataIdle
    /\ ResourceIdle
    /\ ViewerIdle
    /\ PagesIdle
    /\ DialectIdle
    /\ PublishIdle
    /\ RequestIdle
    /\ PreviewIdle
    /\ DiagnosticsIdle
    /\ RunIdle
    /\ LoadsIdle

NextCalls == \E doc \in CallDocs : ExtractResourcePathsAgain(doc)

SpecCalls == InitCalls /\ [][NextCalls]_vars

InitRun ==
    /\ runInput \in RunInputs
    /\ run = IdleRun
    /\ inFlight = NoRequest
    /\ sentRequests = << >>
    /\ userCancelled = FALSE
    /\ TreeIdle
    /\ LegacyIdle
    /\ ValidatorIdle
    /\ LoaderIdle
    /\ MetadataIdle
    /\ ResourceIdle
    /\ ViewerIdle
    /\ PagesIdle
    /\ DialectIdle
    /\ PublishIdle
    /\ RequestIdle
    /\ PreviewIdle
    /\ DiagnosticsIdle
    /\ CallsIdle
    /\ LoadsIdle

NextRun ==
    \/ HandleSubmitRun
    \/ BranchFound
    \/ BranchNotFound
    \/ RepoRead
    \/ RefRead
    \/ RefCreated
    \/ ContentsRead
    \/ FilesReady
    \/ NoFiles
    \/ ExistingRead
    \/ FileUploaded
    \/ PagesEnabled
    \/ AbortErrorCaught
    \/ CancelPublishing

SpecRun == InitRun /\ [][NextRun]_vars

InitLoads ==
    /\ loads = [l \in LoadIds |-> NotChosen]
    /\ TreeIdle
    /\ LegacyIdle
    /\ ValidatorIdle
    /\ LoaderIdle
    /\ MetadataIdle
    /\ ResourceIdle
    /\ ViewerIdle
    /\ PagesIdle
    /\ DialectIdle
    /\ PublishIdle
    /\ RequestIdle
    /\ PreviewIdle
    /\ DiagnosticsIdle
    /\ CallsIdle
    /\ RunIdle

NextLoads ==
    \E l \in LoadIds :
        \/ StartLoad(l)
        \/ ArchiveRejected(l)
        \/ RegisterPreviewSession(l)
        \/ SessionRecorded(l)
        \/ DiagnosticsThrew(l)

SpecLoads == InitLoads /\ [][NextLoads]_vars

(***************************************************************************)
(* Properties of the page tree.  The tree generateElpViewData returned is  *)
(* the roots array viewData.roots with the children arrays of the heap     *)
(* pages; a node is named by its address, which is its source position     *)
(* plus one.                                                               *)
(***************************************************************************)
TreeDone == treePc = "done"

\* the addresses reachable from the set S through at most k children arrays
RECURSIVE ReachableWithin(_, _)
ReachableWithin(S, k) ==
    IF k = 0 THEN S
    ELSE ReachableWithin(S \cup UNION {Range(pages[n].children) : n \in S}, k - 1)

TreeNodes == ReachableWithin(Range(viewData.roots), Len(pages))

ProperDescendants(n) == ReachableWithin(Range(pages[n].children), Len(pages))

\* every sibling group of the tree: the root list and each node's children list
SiblingGroups == {viewData.roots} \cup {pages[n].children : n \in TreeNodes}

Occurrences(group, n) == Cardinality({i \in DOMAIN group : group[i] = n})

\* the slots of the children arrays of the tree: <<owner, position>>
ChildSlots ==
    UNION {{<<m, i>> : i \in DOMAIN pages[m].children} : m \in TreeNodes}

\* how often address n occurs in the tree
TreeOccurrences(n) ==
    Occurrences(viewData.roots, n)
    + Cardinality({slot \in ChildSlots : pages[slot[1]].children[slot[2]] = n})

\* the number of nodes of the tree, over all levels
TreeSize == Len(viewData.roots) + Cardinality(ChildSlots)

SourceIndex(n) == flatPages[n].index

InSiblingOrder(group) ==
    \A i, j \in DOMAIN group :
        i < j =>
            \/ pages[group[i]].order < pages[group[j]].order
            \/ /\ pages[group[i]].order = pages[group[j]].order
               /\ SourceIndex(group[i]) < SourceIndex(group[j])

FlatIds == {flatPages[i].id : i \in DOMAIN flatPages}

DeclaredIdsDistinct ==
    \A i, j \in DOMAIN xmlDoc.odeNavStructure :
        /\ xmlDoc.odeNavStructure[i].odePageId # << >>
        /\ i # j => xmlDoc.odeNavStructure[i].odePageId # xmlDoc.odeNavStructure[j].odePageId

\* C1: in the returned forest every sibling group, at every depth, is in
\* ascending order of `order`, equal orders in ascending source position.
C1_SiblingGroupsSorted ==
    TreeDone => \A group \in SiblingGroups : InSiblingOrder(group)

\* C2: N page records declaring pairwise distinct ids give N flat records and
\* a tree of exactly N nodes, whatever parents they declare.
C2_EveryRecordInTree ==
    (TreeDone /\ DeclaredIdsDistinct) =>
        /\ Len(flatPages) = Len(xmlDoc.odeNavStructure)
        /\ ~viewData.threw
        /\ TreeSize = Len(xmlDoc.odeNavStructure)

\* the record at address n declares itself, or an id no record has, as parent
SelfParent(n) ==
    /\ xmlDoc.odeNavStructure[n].parent # << >>
    /\ xmlDoc.odeNavStructure[n].parent = flatPages[n].id
DanglingParent(n) ==
    /\ xmlDoc.odeNavStructure[n].parent # << >>
    /\ xmlDoc.odeNavStructure[n].parent \notin FlatIds

\* C3: a record whose parent id is its own id, or names an id no record has,
\* is in the root list of the tree: it is neither dropped nor an error.
C3_SelfOrDanglingParentIsRoot ==
    TreeDone =>
        \A n \in DOMAIN flatPages :
            (SelfParent(n) \/ DanglingParent(n)) =>
                /\ ~viewData.threw
                /\ Occurrences(viewData.roots, n) = 1

C3_Witness ==
    /\ TreeDone
    /\ \E n, m \in DOMAIN flatPages :
        /\ SelfParent(n) /\ DanglingParent(m)
        /\ n \in Range(viewData.roots) /\ m \in Range(viewData.roots)

\* C4: the value buildHierarchy returns is a finite forest, also when parent
\* references point at each other: no node is reachable from itself through
\* children lists and no record occurs in it more than once.
C4_FiniteForest ==
    TreeDone =>
        /\ ~viewData.threw
        /\ \A n \in TreeNodes : n \notin ProperDescendants(n)
        /\ \A n \in DOMAIN flatPages : TreeOccurrences(n) <= 1

\* two records name each other as parent while other records form a tree
C4_Witness ==
    /\ TreeDone
    /\ \E n, m \in DOMAIN flatPages :
        /\ n # m
        /\ flatPages[n].parentId = flatPages[m].id
        /\ flatPages[m].parentId = flatPages[n].id
    /\ \E r \in Range(viewData.roots) : pages[r].children # << >>

\* C16: in the tree buildHierarchy returns every root has level 0 and every
\* node in the children list of a node with level L has level L + 1.
C16_LevelsFollowDepth ==
    (TreeDone /\ ~viewData.threw) =>
        /\ \A r \in Range(viewData.roots) : pages[r].level = 0
        /\ \A n \in TreeNodes :
               \A c \in Range(pages[n].children) : pages[c].level = pages[n].level + 1

\* a returned tree with a root, a child of it and a grandchild
C16_Witness ==
    /\ TreeDone
    /\ ~viewData.threw
    /\ \E r \in Range(viewData.roots) :
           \E c \in Range(pages[r].children) : pages[c].children # << >>

(***************************************************************************)
(* Properties of the legacy metadata functions.                            *)
(***************************************************************************)
SameValue(a, b) == a.type = b.type /\ a.value = b.value

\* C5: normalizeLegacyMetadata never overwrites a modern-named key that is
\* present in its input, whatever its value, and sets a modern key from its
\* legacy key only when the modern key is not present in the input.
C5_ModernKeysNeverOverwritten ==
    (legacyPc = "normalized" /\ ~legacyMetadata.isNull) =>
        \A k \in DOMAIN LegacyKeyPairs :
            LET legacy == LegacyKeyPairs[k][1]
                modern == LegacyKeyPairs[k][2]
                input == legacyMetadata.properties
                output == normalizedMetadata.properties
            IN  /\ modern \in DOMAIN input =>
                       /\ modern \in DOMAIN output
                       /\ SameValue(output[modern], input[modern])
                /\ (modern \notin DOMAIN input /\ modern \in DOMAIN output) =>
                       /\ legacy \in DOMAIN input
                       /\ SameValue(output[modern], input[legacy])

\* C6: when the root element of a legacy document carries a version
\* (respectively class) attribute, the properties extractLegacyMetadata
\* returns hold legacy_manifest_version (respectively legacy_manifest_class)
\* equal to it, whatever the children of the root element are.
C6_RootAttributesInProperties ==
    (legacyPc \in {"extracted", "normalized"} /\ legacyDoc.hasRoot) =>
        /\ legacyDoc.version # NoAttr =>
               /\ ~legacyMetadata.isNull
               /\ "legacy_manifest_version" \in DOMAIN legacyMetadata.properties
               /\ SameValue(legacyMetadata.properties["legacy_manifest_version"],
                            Str(legacyDoc.version[1]))
        /\ legacyDoc.class # NoAttr =>
               /\ ~legacyMetadata.isNull
               /\ "legacy_manifest_class" \in DOMAIN legacyMetadata.properties
               /\ SameValue(legacyMetadata.properties["legacy_manifest_class"],
                            Str(legacyDoc.class[1]))

(***************************************************************************)
(* The pairing of extractLegacyDictionary, stated on positions: a child is *)
(* scanned when no key marker before it consumed it as its value, and it   *)
(* opens a pair when it is scanned, is a key marker and has a successor.   *)
(***************************************************************************)
MarkerKey(child) ==
    IF child.value # NoAttr /\ child.value[1] # "" THEN child.value[1]
    ELSE child.textContent

IsKeyMarker(child) == child.role = Attr("key") /\ MarkerKey(child) # ""

RECURSIVE OpensPair(_, _)
OpensPair(children, i) ==
    /\ i < Len(children)
    /\ IsKeyMarker(children[i])
    /\ \/ i = 1
       \/ ~OpensPair(children, i - 1)

PairStarts(children) == {i \in 1..Len(children) : OpensPair(children, i)}

DictionaryOf(doc) == FindFirstChildByLocalName(doc.children, "dictionary")

\* C22: extractLegacyDictionary maps every key marker it scans to the
\* decoding of the element immediately after it and consumes both, skips
\* every other element alone, and adds nothing for a key marker that is the
\* last child: the entries of the result are exactly those of the pairs.
C22_EveryScannedMarkerMapped ==
    (legacyPc \in {"extracted", "normalized"} /\ legacyDoc.hasRoot
        /\ DictionaryOf(legacyDoc) # << >>) =>
        LET children == DictionaryOf(legacyDoc)[1].children
            starts == PairStarts(children)
            result == ExtractLegacyDictionary(DictionaryOf(legacyDoc)[1])
        IN  /\ DOMAIN result = {MarkerKey(children[i]) : i \in starts}
            /\ \A i \in starts :
                   (\A j \in starts : MarkerKey(children[j]) = MarkerKey(children[i]) => j <= i)
                       => SameValue(result[MarkerKey(children[i])],
                                    ExtractLegacyValue(children[i + 1]))
            /\ \A key \in DOMAIN result :
                   /\ key \in DOMAIN legacyMetadata.properties
                   /\ SameValue(legacyMetadata.properties[key], result[key])

(***************************************************************************)
(* Properties of the structural checks.  A record is a page record, a      *)
(* block or a component; a record lacks a required field when none of the  *)
(* field's tag names is the name of one of the record's own fields.        *)
(***************************************************************************)
Level(record) ==
    CASE record.tagName = "odeNavStructure" -> 1
      [] record.tagName = "odePagStructure" -> 2
      [] record.tagName = "odeComponent" -> 3

RequiredFields(record) ==
    CASE record.tagName = "odeNavStructure" ->
            {{"odePageId"}, {"pageName"}, {"odeNavStructureSyncOrder", "odeNavStructureOrder"}}
      [] record.tagName = "odePagStructure" -> {{"odeBlockId"}, {"blockName"}}
      [] record.tagName = "odeComponent" ->
            {{"odeIdeviceId"}, {"odeIdeviceTypeName"}, {"htmlView"}, {"jsonProperties"}}

LackedFields(p) ==
    {names \in RequiredFields(validatedDoc[p]) : names \cap validatedDoc[p].fields = {}}

ViolatingRecords == {p \in DOMAIN validatedDoc : LackedFields(p) # {}}

\* the 1-based number of the record at p among the records with its tag name
\* inside the record that encloses it (for a page record: in the document)
NumberAmong(p, tagName, level) ==
    Cardinality({q \in 1..p :
        /\ validatedDoc[q].tagName = tagName
        /\ \A r \in (q + 1)..p : Level(validatedDoc[r]) >= level})

PageNumber(p) == NumberAmong(p, "odeNavStructure", 1)
BlockNumber(p) == NumberAmong(p, "odePagStructure", 2)
ComponentNumber(p) == NumberAmong(p, "odeComponent", 3)

Locator(p) ==
    CASE validatedDoc[p].tagName = "odeNavStructure" ->
            <<"Navigation structure #">> \o DecimalText(PageNumber(p))
      [] validatedDoc[p].tagName = "odePagStructure" ->
            <<"Block #">> \o DecimalText(BlockNumber(p)) \o <<" in page #">>
            \o DecimalText(PageNumber(p))
      [] validatedDoc[p].tagName = "odeComponent" ->
            <<"Component #">> \o DecimalText(ComponentNumber(p)) \o <<" in block #">>
            \o DecimalText(BlockNumber(p)) \o <<" of page #">>
            \o DecimalText(PageNumber(p))

\* the names of a requirement: its tag names, joined by " / "
RequirementName(names) ==
    IF names = {"odeNavStructureSyncOrder", "odeNavStructureOrder"}
    THEN <<"odeNavStructureSyncOrder", " / ", "odeNavStructureOrder">>
    ELSE <<CHOOSE name \in names : TRUE>>

Occurs(part, text) == \E i \in 1..(Len(text) - Len(part) + 1) :
                          SubSeq(text, i, i + Len(part) - 1) = part

\* the entry of record p: its locator, then the names of its lacked fields
IsEntryOf(entry, p) ==
    /\ Len(entry) > Len(Locator(p))
    /\ SubSeq(entry, 1, Len(Locator(p)) + 1) = Locator(p) \o <<" is missing fields: ">>
    /\ \A names \in RequiredFields(validatedDoc[p]) :
           names \in LackedFields(p) <=>
               Occurs(RequirementName(names), SubSeq(entry, Len(Locator(p)) + 2, Len(entry)))

\* the entries of a message: the pieces between the separators " "
EntryStarts(message) ==
    {i \in DOMAIN message : i = 1 \/ message[i - 1] = " "}
EntryAt(message, i) ==
    LET ends == {j \in i..Len(message) : j = Len(message) \/ message[j + 1] = " "}
    IN  SubSeq(message, i, CHOOSE j \in ends : \A k \in ends : j <= k)

\* C7: validateStructuralIntegrity returns error exactly when some page
\* record, block or component lacks a required field, and its message then
\* holds one entry for every such record of the whole document, with the
\* record's 1-based locator and the names of the fields it lacks.
C7_AllViolationsReported ==
    structuralIntegrity # NotRun =>
        /\ structuralIntegrity.status = "error" <=> ViolatingRecords # {}
        /\ structuralIntegrity.status # "error" => structuralIntegrity.status = "success"
        /\ structuralIntegrity.status = "error" =>
               LET message == structuralIntegrity.message
               IN  /\ \A p \in ViolatingRecords :
                          Cardinality({i \in EntryStarts(message) :
                                          IsEntryOf(EntryAt(message, i), p)}) = 1
                   /\ Cardinality(EntryStarts(message)) = Cardinality(ViolatingRecords)

\* the message of validateStructuralIntegrity names the requirement for the
\* record at p
ReportedMissing(p, names) ==
    /\ structuralIntegrity.status = "error"
    /\ \E i \in EntryStarts(structuralIntegrity.message) :
          LET entry == EntryAt(structuralIntegrity.message, i)
          IN  /\ Len(entry) > Len(Locator(p))
              /\ SubSeq(entry, 1, Len(Locator(p)) + 1)
                     = Locator(p) \o <<" is missing fields: ">>
              /\ Occurs(RequirementName(names),
                        SubSeq(entry, Len(Locator(p)) + 2, Len(entry)))

\* C21: validateStructuralIntegrity reports a page record, block or
\* component as missing a required field exactly when none of the field's
\* tag names is the name of a field of that record itself; a field of a
\* record nested further down does not count.
C21_OwnFieldsDecide ==
    structuralIntegrity # NotRun =>
        \A p \in DOMAIN validatedDoc :
            \A names \in RequiredFields(validatedDoc[p]) :
                ReportedMissing(p, names) <=> names \in LackedFields(p)

PageCount ==
    Cardinality({p \in DOMAIN validatedDoc : validatedDoc[p].tagName = "odeNavStructure"})

\* C9: checkPagePresence returns warning, never error, for zero page records
\* and success with 'Found 1 page.' or 'Found k pages.' for k >= 1 records.
C9_PagePresence ==
    pagePresence # NotRun =>
        /\ PageCount = 0 => pagePresence.status = "warning"
        /\ PageCount = 1 =>
               /\ pagePresence.status = "success"
               /\ pagePresence.message = <<"Found ", "1", " page", ".">>
        /\ PageCount > 1 =>
               /\ pagePresence.status = "success"
               /\ pagePresence.message
                      = <<"Found ">> \o DecimalText(PageCount) \o <<" page", "s", ".">>

\* the check has run on a document with several page records
C9_Witness ==
    /\ pagePresence # NotRun
    /\ PageCount > 1

(***************************************************************************)
(* Properties of the XML loader.                                           *)
(***************************************************************************)
\* C8: parseContentXml returns an error with a non-empty message and no
\* document for a payload that is not a string or not well-formed XML, and
\* success with a document for every other payload; no result has both an
\* error status and a document.
C8_ErrorExactlyForBadPayloads ==
    loaderPc = "done" =>
        /\ IF xmlString.type # "string" \/ ~WellFormed(xmlString.tokens)
           THEN /\ parseResult.status = "error"
                /\ parseResult.message # << >>
                /\ parseResult.document = << >>
           ELSE /\ parseResult.status = "success"
                /\ parseResult.document # << >>
        /\ ~(parseResult.status = "error" /\ parseResult.document # << >>)

(***************************************************************************)
(* Properties of the modern metadata.  The records of a bucket are the     *)
(* records with the bucket's tag name; the key of a record is the trimmed  *)
(* text of its key element.                                                *)
(***************************************************************************)
KeyOf(record) == IF record.key = NoNode THEN << >> ELSE Trim(record.key[1])
ValueOf(record) == IF record.value = NoNode THEN << >> ELSE Trim(record.value[1])

RecordsWithKey(tagName, k) ==
    {p \in DOMAIN metadataDoc :
        metadataDoc[p].tagName = tagName /\ KeyOf(metadataDoc[p]) = k}

KeysOf(tagName) ==
    {KeyOf(metadataDoc[p]) : p \in {q \in DOMAIN metadataDoc :
                                       metadataDoc[q].tagName = tagName}} \ {<< >>}

LastWriteWins(bucket, tagName) ==
    /\ DOMAIN bucket = KeysOf(tagName)
    /\ \A k \in KeysOf(tagName) :
           \E p \in RecordsWithKey(tagName, k) :
               /\ \A q \in RecordsWithKey(tagName, k) : q <= p
               /\ bucket[k] = ValueOf(metadataDoc[p])

\* C10: in properties (from the odeProperty records) and in resources (from
\* the odeResource records) the value under key k is the trimmed value of
\* the last record of that bucket whose trimmed key is k, empty when that
\* record has no value or a blank one; the records of one bucket leave the
\* other bucket alone.
C10_LastWriteWinsPerBucket ==
    metadataPc = "done" =>
        /\ LastWriteWins(modernMetadata.properties, "odeProperty")
        /\ LastWriteWins(modernMetadata.resources, "odeResource")

(***************************************************************************)
(* Properties of the resource references.  The references of a document    *)
(* are the values the scan reads: the attribute values of markup and the   *)
(* strings of a jsonProperties array, when they name a resource folder.    *)
(***************************************************************************)
ResourcesExtracted == resourcePc \in {"extracted", "done"}

References ==
    {v \in ReferenceValues :
        /\ v # << >>
        /\ ResourceFolderTest(v)
        /\ \E k \in DOMAIN resourceDoc :
               /\ v \in Range(resourceDoc[k].values)
               /\ resourceDoc[k].kind = "markup" \/ resourceDoc[k].tagName = "jsonProperties"}

DifferByLeadingSlash(v, w) == w = <<".", "/">> \o v \/ w = <<"/">> \o v

DifferByEncoding(v, w) ==
    /\ ~DecodeURIComponent(v).threw
    /\ ~DecodeURIComponent(w).threw
    /\ DecodeURIComponent(v).text = DecodeURIComponent(w).text

DifferBySlashKind(v, w) ==
    [i \in DOMAIN v |-> IF v[i] = "\\" THEN "/" ELSE v[i]]
        = [i \in DOMAIN w |-> IF w[i] = "\\" THEN "/" ELSE w[i]]

SameResource(v, w) ==
    \/ DifferByLeadingSlash(v, w) \/ DifferByLeadingSlash(w, v)
    \/ DifferByEncoding(v, w)
    \/ DifferBySlashKind(v, w)

\* C11: the list extractResourcePaths returns has no duplicates, and two
\* references that differ only by a leading "./" or "/", by percent-encoding
\* or by the kind of slash give one entry: the list is then shorter than
\* the set of references.
C11_EquivalentReferencesOnce ==
    (ResourcesExtracted /\ ~resourcePaths.threw) =>
        /\ \A i, j \in DOMAIN resourcePaths.paths :
               resourcePaths.paths[i] = resourcePaths.paths[j] => i = j
        /\ Len(resourcePaths.paths) <= Cardinality(References)
        /\ (\E v, w \in References : v # w /\ SameResource(v, w)) =>
               Len(resourcePaths.paths) < Cardinality(References)

IsMissing(path) ==
    LET normalized == NormalizeResourcePath(path)
    IN  /\ ~normalized.threw
        /\ normalized.text \notin zipFiles
        /\ EncodeURI(normalized.text) \notin zipFiles

\* C12: findMissingResources returns exactly the input paths, in input
\* order, for which the archive has no file under the normalized path and
\* none under its re-encoded form; the empty list for no paths.
C12_MissingExactlyTheAbsent ==
    resourcePc = "done" =>
        /\ ~missingResources.threw
        /\ missingResources.paths = SelectSeq(resourcePaths.paths, IsMissing)

JsonNodesAreNotJson ==
    /\ \E k \in DOMAIN resourceDoc : resourceDoc[k].tagName = "jsonProperties"
    /\ \A k \in DOMAIN resourceDoc :
           resourceDoc[k].tagName = "jsonProperties" => resourceDoc[k].kind = "markup"

AsHtmlViews ==
    [k \in DOMAIN resourceDoc |-> [resourceDoc[k] EXCEPT !.tagName = "htmlView"]]

\* C13: when the text of the jsonProperties nodes is not valid JSON,
\* extractResourcePaths propagates no error and collects the attribute
\* values of these nodes as it collects those of htmlView fragments.
C13_InvalidJsonScannedAsMarkup ==
    (ResourcesExtracted /\ JsonNodesAreNotJson) =>
        /\ ~resourcePaths.threw
        /\ Range(resourcePaths.paths) = Range(ExtractResourcePathsOf(AsHtmlViews).paths)

\* C27: resource diagnostics never block: extractResourcePaths returns a
\* list for every document, and findMissingResources applied to that list
\* returns a list for every container; neither raises an error, also for a
\* "%" that is no percent-escape and for an escape that decodes to "%".
C27_DiagnosticsNeverRaise ==
    /\ resourcePc \in {"extracted", "done"} => ~resourcePaths.threw
    /\ resourcePc = "done" => ~missingResources.threw

\* a path without backslash that starts with neither "./" nor "/"
InNormalForm(t) ==
    /\ \A i \in DOMAIN t : t[i] # "\\"
    /\ ~(Len(t) >= 2 /\ t[1] = "." /\ t[2] = "/")
    /\ ~(Len(t) >= 1 /\ t[1] = "/")

\* C28: normalizeResourcePath is idempotent and its result is in normal
\* form: every path it returned is mapped to itself by a second
\* application, has no backslash and starts with neither "./" nor "/".
C28_NormalizeIdempotent ==
    ResourcesExtracted =>
        \A i \in DOMAIN resourcePaths.paths :
            /\ InNormalForm(resourcePaths.paths[i])
            /\ NormalizeResourcePath(resourcePaths.paths[i]) = Returned(resourcePaths.paths[i])

(***************************************************************************)
(* Properties of the viewer.                                               *)
(***************************************************************************)
\* the manifest the handler read: content.xml, or else contentv3.xml
ManifestRead ==
    IF viewerFile.zip.contentXml # NoFile THEN viewerFile.zip.contentXml[1]
    ELSE viewerFile.zip.contentV3[1]

DialectOf(rootName) == IF rootName \in {"ode", "ODE"} THEN "modern" ELSE "legacy"

\* C14: the dialect whose metadata extraction handleElpxFile and
\* handleElpFile run is the one of the manifest's root element (ode, in any
\* case, is modern; any other root is legacy), whatever the name of the
\* manifest file.
C14_DialectByRootName ==
    infoPanel.status = "ready" =>
        /\ infoPanel.manifestKind = DialectOf(ManifestRead.rootName)
        /\ infoPanel.metadata.from = DialectOf(ManifestRead.rootName)

(***************************************************************************)
(* Properties of parseModernPages.  The text of a field is its trimmed     *)
(* text content; a field is blank when that text is empty.                 *)
(***************************************************************************)
FieldText(field) == IF field = NoNode THEN << >> ELSE Trim(field[1])

\* the order field of a record: odeNavStructureSyncOrder, or
\* odeNavStructureOrder when that one is absent or blank
OrderFieldText(navNode) ==
    IF FieldText(navNode.odeNavStructureSyncOrder) # << >>
    THEN FieldText(navNode.odeNavStructureSyncOrder)
    ELSE FieldText(navNode.odeNavStructureOrder)

\* a text is numeric when it is an optional sign followed by digits only
IsNumeric(t) ==
    LET body == IF t # << >> /\ t[1] \in {"-", "+"} THEN Tail(t) ELSE t
    IN  body # << >> /\ \A i \in DOMAIN body : body[i] \in Digits

RECURSIVE NumericValue(_, _)
NumericValue(t, acc) ==
    IF t = << >> THEN acc
    ELSE IF Head(t) = "-" THEN 0 - NumericValue(Tail(t), acc)
    ELSE IF Head(t) = "+" THEN NumericValue(Tail(t), acc)
    ELSE NumericValue(Tail(t), 10 * acc + DigitValue(Head(t)))

ExpectedId(navNode, i) ==
    IF FieldText(navNode.odePageId) # << >> THEN FieldText(navNode.odePageId)
    ELSE <<"page-", i + 1>>

\* C15: for the page record at 0-based position i, id is the text of its
\* odePageId field or "page-<i+1>" when that is absent or blank, title is
\* the text of its pageName field or the id, order is the integer value of
\* its order field or i when it has none or the field is not numeric; id
\* and title are never empty.
C15_PageRecordFields ==
    pagesPc = "done" =>
        /\ Len(parsedPages) = Len(navigationNodes)
        /\ \A k \in DOMAIN navigationNodes :
               LET navNode == navigationNodes[k]
                   i == k - 1
               IN  /\ parsedPages[k].id = ExpectedId(navNode, i)
                   /\ parsedPages[k].title =
                          (IF FieldText(navNode.pageName) # << >>
                           THEN FieldText(navNode.pageName) ELSE ExpectedId(navNode, i))
                   /\ parsedPages[k].order =
                          (IF IsNumeric(OrderFieldText(navNode))
                           THEN NumericValue(OrderFieldText(navNode), 0) ELSE i)
                   /\ parsedPages[k].id # << >>
                   /\ parsedPages[k].title # << >>

(***************************************************************************)
(* Properties of generateElpViewData on documents of any dialect.          *)
(***************************************************************************)
Generated == dialectPc = "done"

IsModern(doc) == doc.hasRoot /\ LowerCase(doc.rootName) = "ode"
IsLegacy(doc) == doc.hasRoot /\ LowerCase(doc.rootName) # "ode"

\* the top-level dictionary element of a legacy document has a _children key
HasChildrenKey(doc) ==
    \E d \in DOMAIN doc.children :
        /\ doc.children[d].localName = "dictionary"
        /\ \A e \in 1..(d - 1) : doc.children[e].localName # "dictionary"
        /\ \E i \in DOMAIN doc.children[d].children :
              /\ doc.children[d].children[i] = KeyMarker("_children")
              /\ i < Len(doc.children[d].children)

HasTopDictionary(doc) ==
    \E d \in DOMAIN doc.children : doc.children[d].localName = "dictionary"

YieldsNoPageRecords(doc) ==
    \/ doc.isNull
    \/ ~doc.isNull /\ ~doc.hasRoot
    \/ ~doc.isNull /\ IsModern(doc) /\ doc.odeNavStructure = << >>
    \/ ~doc.isNull /\ IsLegacy(doc) /\ ~HasTopDictionary(doc)
    \/ ~doc.isNull /\ IsLegacy(doc) /\ HasTopDictionary(doc) /\ ~HasChildrenKey(doc)

\* C17: generateElpViewData returns an empty array, and does not throw, when
\* the document is null, has no root element, is a modern document without
\* odeNavStructure elements, or is a legacy document without top-level
\* dictionary or without _children in it.
C17_EmptyForNoPageRecords ==
    Generated /\ YieldsNoPageRecords(anyDoc) =>
        /\ ~anyViewData.threw
        /\ anyViewData.roots = << >>

\* a legacy document whose top-level dictionary has a title and no _children
\* went through generateElpViewData
C17_Witness ==
    /\ Generated
    /\ IsLegacy(anyDoc)
    /\ HasTopDictionary(anyDoc)
    /\ ~HasChildrenKey(anyDoc)
    /\ anyViewData = Returns(<< >>, << >>)

(***************************************************************************)
(* Properties of parseLegacyChildren.  The node at address i of the heap   *)
(* is made from the i-th record appended to the accumulator and keeps its  *)
(* order and htmlContent.                                                  *)
(***************************************************************************)
RECURSIVE HasOrderKey(_)
HasOrderKey(element) ==
    \/ element = KeyMarker("_order")
    \/ \E c \in DOMAIN element.children : HasOrderKey(element.children[c])

NoExplicitOrder(doc) == \A c \in DOMAIN doc.children : ~HasOrderKey(doc.children[c])

\* C23: for a legacy page structure in which no entry has an explicit
\* _order, the order values of the flat records are non-decreasing in the
\* sequence in which the records are appended to the accumulator, also
\* where the walk returns from a nested children list to the next sibling of
\* an ancestor.
C23_OrdersNonDecreasing ==
    (Generated /\ IsLegacy(anyDoc) /\ NoExplicitOrder(anyDoc)) =>
        \A i \in 1..(Len(anyViewData.heap) - 1) :
            anyViewData.heap[i].order <= anyViewData.heap[i + 1].order

\* the page entries of a _children value, in the order of the depth-first
\* walk: every listed value that is not a string, followed by the entries
\* of its own _children
RECURSIVE WalkEntries(_)
RECURSIVE WalkList(_, _)
WalkList(list, k) ==
    IF k > Len(list) THEN << >>
    ELSE (IF list[k].type # "string"
          THEN <<list[k]>> \o WalkEntries(Get(list[k], "_children"))
          ELSE << >>) \o WalkList(list, k + 1)
WalkEntries(value) == WalkList(EnsureArray(value), 1)

TopEntries(doc) ==
    WalkEntries(Get(Obj(ExtractLegacyMetadataOf(doc).properties), "_children"))

\* the non-blank content fields of a node, trimmed and joined by blank lines
ContentOf(node) ==
    LET present == IndicesWhere(Len(ContentKeys),
                       LAMBDA k : /\ node.type = "object"
                                  /\ ContentKeys[k] \in DOMAIN node.value
                                  /\ node.value[ContentKeys[k]].type = "string"
                                  /\ node.value[ContentKeys[k]].value \notin {"", " "},
                       1)
    IN  JoinSnippets([j \in 1..Len(present) |-> <<node.value[ContentKeys[present[j]]].value>>])

DevicesOf(entry) == EnsureArray(Get(entry, "_idevices"))

DeviceContent(entry) ==
    LET devices == DevicesOf(entry)
        filled == IndicesWhere(Len(devices), LAMBDA d : ContentOf(devices[d]) # << >>, 1)
    IN  JoinSnippets([j \in 1..Len(filled) |-> ContentOf(devices[filled[j]])])

HasDeviceContent(entry) ==
    \E d \in DOMAIN DevicesOf(entry) : ContentOf(DevicesOf(entry)[d]) # << >>

\* C24: the htmlContent of a flat record is the blank-line-joined content
\* fields of the entry's _idevices when at least one device has non-blank
\* content, and the entry's own content fields otherwise; never a mix.
C24_DeviceContentOrOwn ==
    (Generated /\ IsLegacy(anyDoc)) =>
        LET entries == TopEntries(anyDoc)
        IN  /\ Len(anyViewData.heap) = Len(entries)
            /\ \A i \in DOMAIN entries :
                   anyViewData.heap[i].htmlContent =
                       IF HasDeviceContent(entries[i]) THEN DeviceContent(entries[i])
                       ELSE ContentOf(entries[i])

\* a page entry with content of its own, a device with content and a device
\* with blank content went through parseLegacyChildren
C24_Witness ==
    /\ Generated
    /\ IsLegacy(anyDoc)
    /\ \E i \in DOMAIN TopEntries(anyDoc) :
          LET entry == TopEntries(anyDoc)[i]
          IN  /\ ContentOf(entry) # << >>
              /\ HasDeviceContent(entry)
              /\ \E d \in DOMAIN DevicesOf(entry) : ContentOf(DevicesOf(entry)[d]) = << >>
              /\ anyViewData.heap[i].htmlContent = DeviceContent(entry)
              /\ anyViewData.heap[i].htmlContent # ContentOf(entry)

(***************************************************************************)
(* Properties of the publish modal.                                        *)
(***************************************************************************)
\* the selected branch of the selected repository contains files
SelectedBranchPopulated ==
    /\ modal.selectedRepo # NoRepo
    /\ modal.selectedBranch # ""
    /\ HasFiles(github, modal.selectedRepo, modal.selectedBranch)

\* C18: files are uploaded with force to a branch that contained files when
\* Publish was pressed only if the overwrite checkbox was checked at that
\* moment, and while the selected branch contains files and the checkbox is
\* not checked the Publish button is disabled, whatever the order of the
\* selections, the answers of the branch checks and the click.
C18_OverwriteOnlyWhenChecked ==
    /\ (published.called /\ published.force /\ published.populated) => published.overwrite
    /\ (SelectedBranchPopulated /\ ~modal.overwriteChecked /\ ~modal.isPublishing)
           => modal.submitDisabled

(***************************************************************************)
(* Properties of parsePreviewRequest.                                      *)
(***************************************************************************)
RequestParsed == requestPc = "done"

\* the base path written with a trailing slash, and the same base path
\* written the other way (without the trailing slash when it has one, with
\* it when it has none)
WithTrailingSlash(base) == IF EndsWithSlash(base) THEN base ELSE Append(base, "/")
WrittenOtherWay(base) ==
    IF EndsWithSlash(base) THEN SubSeq(base, 1, Len(base) - 1) ELSE Append(base, "/")

\* pathname is <base>preview/<sessionId>/<rest> with a non-empty session id
HasPreviewForm(pathname, base, sessionId, rest) ==
    /\ sessionId \in Names
    /\ pathname = WithTrailingSlash(base) \o <<"preview", "/", sessionId, "/">> \o rest

\* the suffixes of the pathname: the candidates for <rest>
RestCandidates(pathname) == {SubSeq(pathname, i, Len(pathname)) : i \in 1..(Len(pathname) + 1)}

\* C20: parsePreviewRequest returns {sessionId, path, origin} exactly when
\* the pathname is <basePath>preview/<sessionId>/<rest> with a non-empty
\* session id, path being <rest> (index.html when <rest> is empty); it
\* returns null for every other URL; and the base path written with or
\* without its trailing slash gives the same result.
C20_PreviewFormExactly ==
    RequestParsed =>
        /\ \A sessionId \in Names, rest \in RestCandidates(requestUrl.pathname) :
              HasPreviewForm(requestUrl.pathname, requestBasePath, sessionId, rest) =>
                  parsedRequest =
                      PreviewRequest(<<sessionId>>,
                                     IF rest = << >> THEN <<"index.html">> ELSE rest,
                                     requestUrl.origin)
        /\ (~\E sessionId \in Names, rest \in RestCandidates(requestUrl.pathname) :
                HasPreviewForm(requestUrl.pathname, requestBasePath, sessionId, rest))
               => parsedRequest = NullRequest
        /\ ParsePreviewRequest(requestUrl, WrittenOtherWay(requestBasePath)) = parsedRequest

\* /app/preview/s1/x/x was parsed with the base path /app
C20_Witness ==
    /\ RequestParsed
    /\ requestBasePath = <<"/", "app">>
    /\ parsedRequest = PreviewRequest(<<"s1">>, <<"x", "/", "x">>, "https://example.com")

(***************************************************************************)
(* Properties of the preview sessions.                                     *)
(***************************************************************************)
\* the last request was for a file of the archive of a session that the
\* service worker had acknowledged, that the viewer had not released, and
\* that had not been idle for more than 30 minutes
RequestedWhileRegistered ==
    /\ response.answered
    /\ response.ready
    /\ ~response.released
    /\ response.idleFor <= SESSION_TTL
    /\ response.path \in DOMAIN archives[response.sessionId]

\* C19: once the service worker has answered register-session:ready for a
\* session, a request for preview/<sessionId>/<path> with the path of a file
\* of the archive is answered with status 200, the content and the MIME type
\* of that file, as long as the session is not invalidated and has not been
\* idle for more than 30 minutes.
C19_RegisteredFilesServed ==
    RequestedWhileRegistered =>
        /\ response.status = 200
        /\ response.body = archives[response.sessionId][response.path].content
        /\ response.contentType = archives[response.sessionId][response.path].mimeType

(***************************************************************************)
(* Properties of gatherMessages.                                           *)
(***************************************************************************)
GatheredModern == gatherPc = "done" /\ gatherArgs.manifestKind = "modern"

IsResourceMessage(message) ==
    /\ message.level \in {"info", "warning"}
    /\ message.text # << >>
    /\ message.text[1] \in {"Missing ", "All ",
                            "No linked resources were detected in the manifest."}

\* C25: for a modern manifest gatherMessages returns exactly [root error],
\* or [root message, navigation error], or the five messages root,
\* navigation, pages, structure, resources in that order; a page-presence
\* warning or a structural-integrity error does not suppress the later
\* messages.
C25_FixedOrderOfChecks ==
    GatheredModern =>
        LET doc == gatherArgs.doc
            root == CheckRootElementOf(doc)
            nav == CheckNavStructuresOf(doc)
            page == CheckPagePresenceOf(doc.records)
            structure == ValidateStructuralIntegrityOf(doc.records)
            list == messages.list
        IN  /\ ~messages.threw
            /\ root.status = "error" => list = <<Message("error", root.message)>>
            /\ (root.status # "error" /\ nav.status = "error") =>
                   list = <<Message("info", root.message), Message("error", nav.message)>>
            /\ (root.status # "error" /\ nav.status # "error") =>
                   /\ Len(list) = 5
                   /\ list[1] = Message("info", root.message)
                   /\ list[2] = Message("info", nav.message)
                   /\ list[3].text = page.message
                   /\ list[3].level = (IF page.status = "warning" THEN "warning" ELSE "info")
                   /\ list[4].text = structure.message
                   /\ list[4].level = (IF structure.status = "error" THEN "error" ELSE "info")
                   /\ IsResourceMessage(list[5])

(***************************************************************************)
(* Properties of repeated calls of extractResourcePaths.                   *)
(***************************************************************************)
\* C26: extractResourcePaths keeps no state between calls: in every
\* sequence of calls, including calls that raised an error, a call on a
\* document ends as a first call on that document would, with the same list.
C26_NoStateBetweenCalls ==
    callCount > 0 =>
        /\ callResult.threw = ExtractResourcePathsOf(callDoc).threw
        /\ ~callResult.threw => callResult.paths = ExtractResourcePathsOf(callDoc).paths

(***************************************************************************)
(* Properties of a cancelled publish run.                                  *)
(***************************************************************************)
IsWrite(request) == request.method # "GET"

\* C29: once the user has cancelled a running publish, the run sends no
\* further write request to GitHub (branch creation, file upload, Pages
\* activation) and never reaches handleSuccess, at whatever step of
\* handleSubmit the cancellation arrives.
C29_CancelStopsTheRun ==
    /\ \A i \in DOMAIN sentRequests :
           IsWrite(sentRequests[i]) => ~sentRequests[i].afterCancel
    /\ userCancelled => run.pc # "handleSuccess"

(***************************************************************************)
(* Properties of overlapping file loads.                                   *)
(***************************************************************************)
AllLoadsFinished == \A l \in LoadIds : loads[l].pc \in {"waiting", "done", "failed"}

\* the sessions registered by the viewer for which no invalidate-session
\* was posted
LiveSessions ==
    {loads[l].sessionId : l \in {m \in DOMAIN loads : loads[m].sessionId # NoSession}}
        \ released

\* C30: under every interleaving of file loads, once all loads have
\* finished at most one registered preview session has not been sent
\* invalidate-session, and that session is the one in currentSession.
C30_OneLiveSession ==
    AllLoadsFinished =>
        /\ Cardinality(LiveSessions) <= 1
        /\ LiveSessions \subseteq {currentSession}

====
